---- MODULE Spec2Model ----
(***************************************************************************)
(* Event consumption pipeline of the serverless orders workflow: the SQS   *)
(* triggered worker (services/worker/handler.ts), the DynamoDB idempotency *)
(* table it claims event ids in, the main queue / dead-letter queue        *)
(* contract declared in infra/lib/event-driven-stack.ts, and the tool that *)
(* replays the dead-letter queue (scripts/replay-dlq.ts).                  *)
(***************************************************************************)
EXTENDS Integers, Sequences, FiniteSets, TLC

(***************************************************************************)
(* Bounds of the model.                                                    *)
(***************************************************************************)
MaxInvocations == 3
MaxFaults == 2
MaxItems == 2
MaxReplayFaults == 2

(***************************************************************************)
(* Program constants.                                                      *)
(***************************************************************************)
BatchSize == 5
MaxReceiveCount == 5
MaxNumberOfMessages == 10

(***************************************************************************)
(* Values.  Missing stands for a JavaScript undefined property.            *)
(***************************************************************************)
Missing == "<undefined>"
FailSku == "FAIL-ME"

Workers == {"w1", "w2"}
MsgIds == {1, 2}
EventIds == {"e1", "e2"}

Truthy(x) == x \notin {Missing, ""}

OrderItem(sku, qty) == [sku |-> sku, qty |-> qty]

OrderCreatedDetail(eventId, orderId, createdAt, hasItems, items) ==
    [eventId |-> eventId, orderId |-> orderId, createdAt |-> createdAt,
     hasItems |-> hasItems, items |-> items]

NoDetail == OrderCreatedDetail(Missing, Missing, Missing, FALSE, <<>>)

\* The body of an SQS record.  kind: "empty" (no body), "notjson" (JSON.parse
\* throws), "null" (the JSON text null), "object" (a JSON object).
SQSBody(kind, source, detailType, hasDetail, detail) ==
    [kind |-> kind, source |-> source, detailType |-> detailType,
     hasDetail |-> hasDetail, detail |-> detail]

EmptyBody == SQSBody("empty", Missing, Missing, FALSE, NoDetail)
NotJsonBody == SQSBody("notjson", Missing, Missing, FALSE, NoDetail)
NullBody == SQSBody("null", Missing, Missing, FALSE, NoDetail)

EventBridgeEnvelope(detail) ==
    SQSBody("object", "myapp.orders", "OrderCreated", TRUE, detail)

(***************************************************************************)
(* parseEventBridgeEnvelope: TRUE when it returns the envelope, FALSE when *)
(* it throws.                                                              *)
(***************************************************************************)
parseEventBridgeEnvelope(body) ==
    IF body.kind = "empty" THEN FALSE
    ELSE IF body.kind = "notjson" THEN FALSE
    ELSE IF body.kind = "null" THEN FALSE
    ELSE IF ~body.hasDetail \/ ~Truthy(body.detailType) \/ ~Truthy(body.source)
         THEN FALSE
    ELSE TRUE

(***************************************************************************)
(* The idempotency table: a set of items keyed by eventId.                 *)
(***************************************************************************)
VARIABLE TABLE_NAME     \* worker: whether the environment sets it

\* (mutation) the item is keyed by the orderId
IdempotencyItemOfOrder(detail) ==
    [eventId |-> detail.orderId, orderId |-> detail.orderId,
     createdAt |-> detail.createdAt]

IdempotencyItem(detail) ==
    [eventId |-> detail.eventId, orderId |-> detail.orderId,
     createdAt |-> detail.createdAt]

HasItem(tbl, eventId) == \E r \in tbl : r.eventId = eventId

\* (mutation) the put carries no condition
NoCondition(tbl, eventId) == TRUE

\* ConditionExpression attribute_not_exists(eventId)
AttributeNotExists(tbl, eventId) == ~HasItem(tbl, eventId)

\* The attribute values the table accepts: every S attribute is defined, and
\* the key attribute is not the empty string.
ItemAccepted(item) ==
    /\ item.eventId \notin {Missing, ""}
    /\ item.orderId # Missing
    /\ item.createdAt # Missing

\* (mutation) a put that replaces the item whatever the table holds
PutItemReplacing(tbl, item, fault) ==
    IF fault THEN [answer |-> "StoreUnavailable", table |-> tbl]
    ELSE IF ~ItemAccepted(item) THEN [answer |-> "ValidationException", table |-> tbl]
    ELSE [answer |-> "ok",
          table |-> {r \in tbl : r.eventId # item.eventId} \cup {item}]

\* (mutation) a put that is also rejected when an item has the same orderId
PutItemKeyedByOrder(tbl, item, fault) ==
    IF fault THEN [answer |-> "StoreUnavailable", table |-> tbl]
    ELSE IF ~ItemAccepted(item) THEN [answer |-> "ValidationException", table |-> tbl]
    ELSE IF \E r \in tbl : r.eventId = item.eventId \/ r.orderId = item.orderId
         THEN [answer |-> "ConditionalCheckFailedException", table |-> tbl]
    ELSE [answer |-> "ok", table |-> tbl \cup {item}]

\* PutItem with the condition expression: the answer and the table after it.
\* fault: the request fails for a reason of the store or the transport.
PutItemCommand(tbl, item, fault) ==
    IF fault THEN [answer |-> "StoreUnavailable", table |-> tbl]
    ELSE IF ~ItemAccepted(item) THEN [answer |-> "ValidationException", table |-> tbl]
    ELSE IF ~AttributeNotExists(tbl, item.eventId)
         THEN [answer |-> "ConditionalCheckFailedException", table |-> tbl]
    ELSE [answer |-> "ok", table |-> tbl \cup {item}]

\* (mutation) the claim is answered without the item being written
recordIdempotencyNotWriting(tbl, detail, fault) ==
    LET put == PutItemCommand(tbl, IdempotencyItem(detail), fault)
    IN  [status |-> IF put.answer = "ok" THEN "new"
                    ELSE IF put.answer = "ConditionalCheckFailedException"
                         THEN "duplicate"
                    ELSE "threw",
         answer |-> put.answer,
         table |-> tbl]

\* (mutation) an accepted put is answered 'duplicate'
recordIdempotencyNeverNew(tbl, detail, fault) ==
    LET put == PutItemCommand(tbl, IdempotencyItem(detail), fault)
    IN  [status |-> IF put.answer \in {"ok", "ConditionalCheckFailedException"}
                    THEN "duplicate" ELSE "threw",
         answer |-> put.answer,
         table |-> put.table]

\* (mutation) an error of the store is swallowed and answered 'duplicate'
recordIdempotencySwallowing(tbl, detail, fault) ==
    LET put == PutItemCommand(tbl, IdempotencyItem(detail), fault)
    IN  [status |-> IF put.answer = "ok" THEN "new" ELSE "duplicate",
         answer |-> put.answer,
         table |-> put.table]

\* (mutation) an error of the store is taken for a first claim
recordIdempotencyAssumingNew(tbl, detail, fault) ==
    LET put == PutItemCommand(tbl, IdempotencyItem(detail), fault)
    IN  [status |-> IF put.answer = "ConditionalCheckFailedException"
                    THEN "duplicate" ELSE "new",
         answer |-> put.answer,
         table |-> put.table]

\* (mutation) the put is sent whether or not TABLE_NAME is set
recordIdempotencyUnguarded(tbl, detail, fault) ==
    LET put == PutItemCommand(tbl, IdempotencyItem(detail), fault)
    IN  [status |-> IF put.answer = "ok" THEN "new"
                    ELSE IF put.answer = "ConditionalCheckFailedException"
                         THEN "duplicate"
                    ELSE "threw",
         answer |-> put.answer,
         table |-> put.table]

\* recordIdempotency: "new", "duplicate" or "threw", and the table after it.
\* Without TABLE_NAME it throws before any request is sent to the store.
recordIdempotency(tbl, detail, fault) ==
    IF ~TABLE_NAME THEN [status |-> "threw", answer |-> "none", table |-> tbl]
    ELSE
    LET put == PutItemCommand(tbl, IdempotencyItem(detail), fault)
    IN  [status |-> IF put.answer = "ok" THEN "new"
                    ELSE IF put.answer = "ConditionalCheckFailedException"
                         THEN "duplicate"
                    ELSE "threw",
         answer |-> put.answer,
         table |-> put.table]

(***************************************************************************)
(* processOrder: "ok" when it returns, "threw" when it throws.             *)
(***************************************************************************)
hasFailSku(detail) ==
    \E i \in 1..Len(detail.items) : detail.items[i].sku = FailSku

\* (mutation) no item makes business processing fail
processOrderIgnoringSku(detail) ==
    IF ~detail.hasItems THEN "threw" ELSE "ok"

processOrder(detail) ==
    IF ~detail.hasItems THEN "threw"
    ELSE IF hasFailSku(detail) THEN "threw"
    ELSE "ok"

(***************************************************************************)
(* The payloads the model delivers.                                        *)
(***************************************************************************)
Skus == {"SKU-1", FailSku, ""}
Qtys == {0, 1, 2}
OrderItems == {OrderItem(s, q) : s \in Skus, q \in Qtys}

RECURSIVE SeqsUpTo(_, _)
SeqsUpTo(S, n) ==
    IF n = 0 THEN {<<>>}
    ELSE LET shorter == SeqsUpTo(S, n - 1)
         IN  shorter \cup {Append(q, x) : q \in {r \in shorter : Len(r) = n - 1}, x \in S}

ItemLists == SeqsUpTo(OrderItems, MaxItems)

AllDetails ==
    {OrderCreatedDetail(e, o, c, h, IF h THEN l ELSE <<>>) :
        e \in {"e1", Missing, ""}, o \in {"o1", Missing}, c \in {"t1", Missing},
        h \in BOOLEAN, l \in ItemLists}

AllBodies ==
    {EmptyBody, NotJsonBody, NullBody}
    \cup {SQSBody("object", s, t, h, IF h THEN d ELSE NoDetail) :
            s \in {"myapp.orders", Missing, ""}, t \in {"OrderCreated", Missing},
            h \in BOOLEAN, d \in AllDetails}

GoodDetail(eventId, orderId) ==
    OrderCreatedDetail(eventId, orderId, "t1", TRUE, <<OrderItem("SKU-1", 2)>>)
FailDetail(eventId, orderId) ==
    OrderCreatedDetail(eventId, orderId, "t1", TRUE, <<OrderItem(FailSku, 1)>>)

PipelineBodies ==
    << EmptyBody,
      SQSBody("object", Missing, "OrderCreated", TRUE, GoodDetail("e1", "o1")),
      EventBridgeEnvelope(GoodDetail("e1", "o1")),
      EventBridgeEnvelope(GoodDetail("e1", "o2")),
      EventBridgeEnvelope(GoodDetail("e2", "o1")),
      EventBridgeEnvelope(FailDetail("e2", "o2")),
      EventBridgeEnvelope(OrderCreatedDetail("e2", "o2", "t1", FALSE, <<>>)),
      EventBridgeEnvelope(OrderCreatedDetail("e2", "o2", "t1", TRUE, <<>>)),
      EventBridgeEnvelope(OrderCreatedDetail("e1", "o1", "t1", TRUE, <<OrderItem("SKU-1", 0)>>)),
      EventBridgeEnvelope(OrderCreatedDetail(Missing, "o1", "t1", TRUE, <<OrderItem("SKU-1", 2)>>)) >>

(***************************************************************************)
(* State.                                                                  *)
(***************************************************************************)
VARIABLES
    body,               \* main queue: the body of each message
    qstate,             \* main queue: "visible", "inflight", "deleted", "dlq"
    rcv,                \* main queue: the receive count of each message
    table,              \* the idempotency table
    pc,                 \* per invocation: "idle", "loop", "process"
    batch,              \* per invocation: event.Records, as message ids
    idx,                \* per invocation: position of the for loop
    batchItemFailures,  \* per invocation: the list the handler builds
    trace,              \* per invocation: what happened to each record
    log,                \* per invocation: the outcome entries written
    calls,              \* per eventId: invocations of processOrder
    completed,          \* per eventId: invocations of processOrder that returned
    newClaims,          \* per eventId: claims answered "new"
    expiries,           \* per eventId: items removed by the table's TTL
    orphaned,           \* eventIds claimed by an invocation that was aborted before processOrder
    storeFailed,        \* messages one of whose claims the store failed
    faults,             \* store faults, aborts and expiries so far
    invocations,        \* invocations of the handler so far
    pin,                \* the payload given to the parser alone
    pout,               \* its verdict: "none", "accepted", "rejected"
    MAIN_QUEUE_URL,     \* replay tool: whether the environment sets it
    DLQ_URL,            \* replay tool: whether the environment sets it
    dlq,                \* dead-letter queue: per message its body, what it lacks, its state
    rpc,                \* replay tool: "start", "receive", "send", "delete", "done", "exited", "crashed"
    messages,           \* replayOnce: what the last receive returned, as DLQ ids
    ri,                 \* replayOnce: position of the for loop
    processedCount,     \* replayOnce: its counter
    toDelete,           \* replayOnce: the messages queued for the batch delete
    totalReplayed,      \* main: its counter
    exitCode,           \* replay tool: "none", "0", "1", "killed"
    rlog,               \* replay tool: the lines it printed
    mainSent,           \* the sends the main queue accepted, in order
    arrived,            \* how many of them the main queue has made visible
    round,              \* receives from the DLQ that returned so far
    everReceived,       \* DLQ messages a receive returned
    undeleted,          \* DLQ messages the batch delete reported as failed
    fatal,              \* the call whose error ended the run: "none", "env", "receive", "delete"
    rfaults,            \* failed sends, failed deletes, errors and crashes of the tool so far
    EVENT_BUS_NAME,     \* API: whether the environment sets it
    apc,                \* API handler: "idle", "publish"
    areq,               \* API handler: the request being handled, or the last one
    arequestId,         \* API handler: its requestId
    adetail,            \* API handler: the detail it built
    bus,                \* the entries the event bus accepted, in order
    aresp,              \* API handler: the response it returned last
    uuids,              \* how many times uuidv4() was called
    alog,               \* API handler: the lines it logged
    handled,            \* requests given to the API handler so far
    TTL_DAYS_ENV,       \* worker: the value of process.env.TTL_DAYS, "" when unset
    lastClaim,          \* the last call of recordIdempotency with its clock reading
    visibleAt,          \* main queue: per message, when its visibility window ends
    startedAt,          \* per invocation: when it started
    nowMs               \* the clock, in milliseconds

queueVars == <<body, qstate, rcv>>
workerVars == <<pc, batch, idx, batchItemFailures, trace, log>>
ghostVars == <<calls, completed, newClaims, expiries, orphaned, storeFailed, faults,
               invocations>>
parseVars == <<pin, pout>>
toolVars == <<MAIN_QUEUE_URL, DLQ_URL, rpc, messages, ri, processedCount, toDelete,
              totalReplayed, exitCode, rlog>>
replayGhostVars == <<mainSent, arrived, round, everReceived, undeleted, fatal, rfaults>>
replayVars == <<dlq, toolVars, replayGhostVars>>
apiVars == <<EVENT_BUS_NAME, apc, areq, arequestId, adetail, bus, aresp, uuids, alog,
             handled>>
sideVars == <<apiVars, TABLE_NAME, TTL_DAYS_ENV, lastClaim, visibleAt, startedAt, nowMs>>
vars == <<queueVars, table, workerVars, ghostVars, parseVars, replayVars, sideVars>>

\* What happened to one record: the parser's verdict, the store's answer to the
\* put, the status recordIdempotency gave the handler, the result of
\* processOrder, and whether the table held the eventId before and after.
TraceEntry(msg, parsed, answer, claim, proc, before, after) ==
    [msg |-> msg, parsed |-> parsed, answer |-> answer, claim |-> claim,
     proc |-> proc, recBefore |-> before, recAfter |-> after]

\* (mutation) the entry carries the envelope's id in place of detail.eventId
LogEntryOfEnvelopeId(outcome, eventId, orderId) ==
    [outcome |-> outcome, eventId |-> "envelope.id", orderId |-> orderId]

LogEntry(outcome, eventId, orderId) ==
    [outcome |-> outcome, eventId |-> eventId, orderId |-> orderId]

\* The entry the catch block writes: detail?.eventId ?? envelope?.id ?? 'unknown'.
\* detail is assigned only when the parse returned.
FailedLogEntry(parsed, detail) ==
    LogEntry("failed",
             IF parsed /\ detail.eventId # Missing THEN detail.eventId
             ELSE IF parsed THEN "envelope.id" ELSE "unknown",
             IF parsed /\ detail.orderId # Missing THEN detail.orderId ELSE "unknown")

InitWorker ==
    /\ pc = [w \in Workers |-> "idle"]
    /\ batch = [w \in Workers |-> <<>>]
    /\ idx = [w \in Workers |-> 1]
    /\ batchItemFailures = [w \in Workers |-> <<>>]
    /\ trace = [w \in Workers |-> <<>>]
    /\ log = [w \in Workers |-> <<>>]

InitGhost ==
    /\ calls = [e \in EventIds |-> 0]
    /\ completed = [e \in EventIds |-> 0]
    /\ newClaims = [e \in EventIds |-> 0]
    /\ expiries = [e \in EventIds |-> 0]
    /\ orphaned = {}
    /\ storeFailed = {}
    /\ faults = 0
    /\ invocations = 0

(***************************************************************************)
(* The dead-letter queue and the replay tool before main() runs.           *)
(***************************************************************************)
DlqIds == {1, 2, 3}

\* A message of the dead-letter queue as a receive returns it: lacks names the
\* field the response leaves out ("nothing" for a complete message); state is
\* "visible", "inflight", "deleted" or "absent".
Message(b, lacks, state) == [body |-> b, lacks |-> lacks, state |-> state]

NoMessage == Message(EmptyBody, "nothing", "absent")

DlqEntries ==
    << Message(PipelineBodies[2], "nothing", "visible"),
       Message(PipelineBodies[3], "nothing", "visible"),
       Message(EmptyBody, "Body", "visible"),
       Message(PipelineBodies[3], "ReceiptHandle", "visible"),
       Message(PipelineBodies[3], "MessageId", "visible"),
       NoMessage >>

\* The queue's content.  The ids stand for the order in which the queue
\* returns the messages, so every arrangement of the entries is drawn.
DlqContents ==
    {[d \in DlqIds |-> DlqEntries[f[d]]] : f \in [DlqIds -> 1..Len(DlqEntries)]}

InitTool ==
    /\ rpc = "start"
    /\ messages = <<>>
    /\ ri = 1
    /\ processedCount = 0
    /\ toDelete = <<>>
    /\ totalReplayed = 0
    /\ exitCode = "none"
    /\ rlog = <<>>

InitReplayGhost ==
    /\ mainSent = <<>>
    /\ arrived = 0
    /\ round = 0
    /\ everReceived = {}
    /\ undeleted = {}
    /\ fatal = "none"
    /\ rfaults = 0

\* The replay tool is not run and the dead-letter queue is empty.
NoReplay ==
    /\ MAIN_QUEUE_URL = TRUE
    /\ DLQ_URL = TRUE
    /\ dlq = [d \in DlqIds |-> NoMessage]
    /\ InitTool
    /\ InitReplayGhost

(***************************************************************************)
(* The API handler's values.  A JSON value is given by its type and, for   *)
(* a string, its text; texts the code searches or trims are sequences of   *)
(* characters.                                                             *)
(***************************************************************************)
Undefined == [type |-> "undefined", s |-> ""]
Str(text) == [type |-> "string", s |-> text]
\* typeof v
TypeOf(v) == IF v.type = "null" THEN "object" ELSE v.type

\* the values || passes on: every string but the empty one
NonEmptyString(v) == v.type = "string" /\ v.s # ""

Sku(type, chars) == [type |-> type, chars |-> chars]
Qty(type, finite, n) == [type |-> type, finite |-> finite, n |-> n]
ApiItem(sku, qty) == [kind |-> "object", sku |-> sku, qty |-> qty]
NullItem == [kind |-> "null", sku |-> Sku("undefined", <<>>), qty |-> Qty("undefined", FALSE, 0)]
GoodSku == Sku("string", <<"S", "K", "U", "-", "1">>)
GoodItem == ApiItem(GoodSku, Qty("number", TRUE, 1))
Items(elems) == [isArray |-> TRUE, elems |-> elems]
NoItems == [isArray |-> FALSE, elems |-> <<>>]

Payload(customerId, orderId, eventId, items) ==
    [kind |-> "object", customerId |-> customerId, orderId |-> orderId,
     eventId |-> eventId, items |-> items]
NullPayload ==
    [kind |-> "null", customerId |-> Undefined, orderId |-> Undefined,
     eventId |-> Undefined, items |-> NoItems]

\* event.body: missing, not JSON, or the JSON text of a payload
ApiRequest(requestId, kind, payload) ==
    [requestId |-> requestId, body |-> [kind |-> kind, payload |-> payload]]
NoRequest == ApiRequest("", "missing", NullPayload)

ApiRequests ==
    << ApiRequest("r1", "missing", NullPayload),
       ApiRequest("r1", "invalid", NullPayload),
       ApiRequest("r1", "json", NullPayload),
       ApiRequest("r1", "json", Payload(Undefined, Undefined, Undefined, NoItems)),
       ApiRequest("r1", "json", Payload(Undefined, Str("o1"), Undefined, Items(<<>>))),
       ApiRequest("r1", "json", Payload(Undefined, Undefined, Undefined, Items(<<NullItem>>))),
       ApiRequest("r1", "json", Payload(Undefined, Undefined, Undefined,
                           Items(<<ApiItem(Sku("string", <<>>), Qty("number", TRUE, 1))>>))),
       ApiRequest("r1", "json", Payload(Undefined, Undefined, Undefined,
                           Items(<<ApiItem(Sku("string", <<" ", " ">>), Qty("number", TRUE, 1))>>))),
       ApiRequest("r1", "json", Payload(Undefined, Undefined, Undefined,
                           Items(<<ApiItem(Sku("number", <<>>), Qty("number", TRUE, 1))>>))),
       ApiRequest("r1", "json", Payload(Undefined, Undefined, Undefined,
                           Items(<<ApiItem(GoodSku, Qty("number", TRUE, 0))>>))),
       ApiRequest("r1", "json", Payload(Undefined, Undefined, Undefined,
                           Items(<<ApiItem(GoodSku, Qty("string", FALSE, 1))>>))),
       ApiRequest("r1", "json", Payload(Undefined, Undefined, Undefined,
                           Items(<<ApiItem(GoodSku, Qty("number", FALSE, 0))>>))),
       ApiRequest("r1", "json", Payload(Undefined, Undefined, Undefined,
                           Items(<<GoodItem, ApiItem(GoodSku, Qty("number", TRUE, -1))>>))),
       ApiRequest("r1", "json", Payload([type |-> "number", s |-> ""], Undefined, Undefined,
                                        Items(<<GoodItem>>))),
       ApiRequest("r1", "json", Payload(Undefined, [type |-> "number", s |-> ""], Undefined,
                                        Items(<<GoodItem>>))),
       ApiRequest("r1", "json", Payload(Undefined, [type |-> "null", s |-> ""], Undefined,
                                        Items(<<GoodItem>>))),
       ApiRequest("r1", "json", Payload(Undefined, Undefined, Undefined, Items(<<GoodItem>>))),
       ApiRequest("r1", "json", Payload(Str("c1"), Str("o1"), Str("e-req"),
                                        Items(<<GoodItem, GoodItem>>))),
       ApiRequest("r1", "json", Payload(Undefined, Str(""), Undefined, Items(<<GoodItem>>))),
       ApiRequest("", "json", Payload(Undefined, Undefined, Str("e-req"), Items(<<GoodItem>>))) >>

\* the arguments and the outcome of the last recordIdempotency call, none yet
NoClaim ==
    [status |-> "none", answer |-> "none", at |-> 0,
     item |-> [eventId |-> "", orderId |-> "", createdAt |-> "", expiresAt |-> <<>>],
     before |-> {}, after |-> {}]

\* The API handler before its first request.
IdleApi ==
    /\ apc = "idle"
    /\ areq = NoRequest
    /\ arequestId = ""
    /\ adetail = [schemaVersion |-> "", eventId |-> "", orderId |-> "", createdAt |-> 0,
                  customerId |-> Undefined, items |-> <<>>]
    /\ bus = <<>>
    /\ aresp = [statusCode |-> 0, body |-> [message |-> <<>>]]
    /\ uuids = 0
    /\ alog = <<>>
    /\ handled = 0

\* Nothing but the pipeline runs: the API handler is idle, the clock stands.
NoSide ==
    /\ EVENT_BUS_NAME = TRUE
    /\ IdleApi
    /\ TABLE_NAME = TRUE
    /\ TTL_DAYS_ENV = <<>>
    /\ lastClaim = NoClaim
    /\ visibleAt = [m \in MsgIds |-> 0]
    /\ startedAt = [w \in Workers |-> 0]
    /\ nowMs = 0

\* The queue's content: message ids are interchangeable (a batch takes them in
\* any order), so the payloads are drawn in the order of PipelineBodies.
QueueContents ==
    {[m \in MsgIds |-> PipelineBodies[f[m]]] :
        f \in {g \in [MsgIds -> 1..Len(PipelineBodies)] :
                  \A m1, m2 \in MsgIds : m1 < m2 => g[m1] <= g[m2]}}

Init ==
    /\ body \in QueueContents
    /\ qstate = [m \in MsgIds |-> "visible"]
    /\ rcv = [m \in MsgIds |-> 0]
    /\ table = {}
    /\ InitWorker
    /\ InitGhost
    /\ pin = EmptyBody
    /\ pout = "none"
    /\ NoReplay
    /\ NoSide

(***************************************************************************)
(* The Lambda event source: an invocation receives a batch of visible      *)
(* messages of the main queue, at most BatchSize of them.                  *)
(***************************************************************************)
Receivable(m) == qstate[m] = "visible" /\ rcv[m] < MaxReceiveCount

RECURSIVE Orderings(_)
Orderings(S) ==
    IF S = {} THEN {<<>>}
    ELSE UNION {{<<x>> \o q : q \in Orderings(S \ {x})} : x \in S}

Batches ==
    UNION {Orderings(S) : S \in {T \in SUBSET {m \in MsgIds : Receivable(m)} :
                                    T # {} /\ Cardinality(T) <= BatchSize}}

Range(q) == {q[i] : i \in 1..Len(q)}

Invoke(w, b) ==
    /\ pc[w] = "idle"
    /\ invocations < MaxInvocations
    /\ invocations' = invocations + 1
    /\ qstate' = [m \in MsgIds |-> IF m \in Range(b) THEN "inflight" ELSE qstate[m]]
    /\ rcv' = [m \in MsgIds |-> IF m \in Range(b) THEN rcv[m] + 1 ELSE rcv[m]]
    /\ pc' = [pc EXCEPT ![w] = "loop"]
    /\ batch' = [batch EXCEPT ![w] = b]
    /\ idx' = [idx EXCEPT ![w] = 1]
    /\ batchItemFailures' = [batchItemFailures EXCEPT ![w] = <<>>]
    /\ trace' = [trace EXCEPT ![w] = <<>>]
    /\ log' = [log EXCEPT ![w] = <<>>]
    /\ UNCHANGED <<body, table, calls, completed, newClaims, expiries, orphaned,
                   storeFailed, faults, parseVars, replayVars, sideVars>>

(***************************************************************************)
(* handler: one iteration of the for loop, cut at its two awaits.          *)
(***************************************************************************)
\* (mutation) the duplicate branch is never taken
NeverDuplicate(status) == FALSE

\* the branch taken on idempotencyStatus === 'duplicate': log and continue
IsDuplicate(status) == status = "duplicate"

\* (mutation) the catch block logs and pushes nothing
DropFailure(failures, messageId) == failures

\* (mutation) the messageId is put in front of the list
PushFailureInFront(failures, messageId) == <<messageId>> \o failures

\* the list after the catch block's push
PushFailure(failures, messageId) == Append(failures, messageId)

\* (mutation) a failure ends the loop
StopOnFailure(i, n, failed) == IF failed THEN n + 1 ELSE i + 1

\* (mutation) a failed record is tried again
RetryOnFailure(i, n, failed) == IF failed THEN i ELSE i + 1

\* the loop goes on with the next record, whatever happened to this one
NextRecord(i, n, failed) == i + 1

\* the catch block: one "failed" entry, the messageId pushed, the loop continues
Catch(w, m, parsed, detail) ==
    /\ log' = [log EXCEPT ![w] = Append(@, FailedLogEntry(parsed, detail))]
    /\ batchItemFailures' = [batchItemFailures EXCEPT ![w] = PushFailure(@, m)]
    /\ idx' = [idx EXCEPT ![w] = NextRecord(@, Len(batch[w]), TRUE)]
    /\ pc' = [pc EXCEPT ![w] = "loop"]

\* parseEventBridgeEnvelope(record), then await recordIdempotency(detail)
HandlerClaim(w) ==
    /\ pc[w] = "loop"
    /\ idx[w] <= Len(batch[w])
    /\ LET m == batch[w][idx[w]]
           parsed == parseEventBridgeEnvelope(body[m])
           detail == body[m].detail
       IN  IF ~parsed
           THEN /\ Catch(w, m, FALSE, detail)
                /\ trace' = [trace EXCEPT ![w] =
                        Append(@, TraceEntry(m, FALSE, "none", "none", "none", FALSE, FALSE))]
                /\ UNCHANGED <<table, ghostVars>>
           ELSE \E fault \in IF TABLE_NAME /\ faults < MaxFaults THEN BOOLEAN ELSE {FALSE} :
                  LET r == recordIdempotency(table, detail, fault)
                      before == HasItem(table, detail.eventId)
                      after == HasItem(r.table, detail.eventId)
                  IN  /\ table' = r.table
                      /\ faults' = IF fault THEN faults + 1 ELSE faults
                      /\ storeFailed' = IF fault THEN storeFailed \cup {m} ELSE storeFailed
                      /\ trace' = [trace EXCEPT ![w] =
                              Append(@, TraceEntry(m, TRUE, r.answer, r.status, "none", before, after))]
                      /\ newClaims' = IF r.status = "new"
                                      THEN [newClaims EXCEPT ![detail.eventId] = @ + 1]
                                      ELSE newClaims
                      /\ IF r.status = "threw"
                         THEN Catch(w, m, TRUE, detail)
                         ELSE IF IsDuplicate(r.status)
                         THEN /\ log' = [log EXCEPT ![w] = Append(@,
                                    LogEntry("duplicate_ignored", detail.eventId, detail.orderId))]
                              /\ idx' = [idx EXCEPT ![w] = NextRecord(@, Len(batch[w]), FALSE)]
                              /\ UNCHANGED <<pc, batchItemFailures>>
                         ELSE /\ pc' = [pc EXCEPT ![w] = "process"]
                              /\ UNCHANGED <<idx, log, batchItemFailures>>
                      /\ UNCHANGED <<calls, completed, expiries, orphaned, invocations>>
    /\ UNCHANGED <<queueVars, batch, parseVars, replayVars, sideVars>>

\* await processOrder(detail)
HandlerProcess(w) ==
    /\ pc[w] = "process"
    /\ LET m == batch[w][idx[w]]
           detail == body[m].detail
           result == processOrder(detail)
           e == detail.eventId
       IN  /\ calls' = [calls EXCEPT ![e] = @ + 1]
           /\ completed' = IF result = "ok" THEN [completed EXCEPT ![e] = @ + 1]
                           ELSE completed
           /\ trace' = [trace EXCEPT ![w][idx[w]].proc = result]
           /\ IF result = "ok"
              THEN /\ log' = [log EXCEPT ![w] = Append(@,
                          LogEntry("success", detail.eventId, detail.orderId))]
                   /\ idx' = [idx EXCEPT ![w] = NextRecord(@, Len(batch[w]), FALSE)]
                   /\ pc' = [pc EXCEPT ![w] = "loop"]
                   /\ UNCHANGED batchItemFailures
              ELSE Catch(w, m, TRUE, detail)
    /\ UNCHANGED <<queueVars, table, batch, newClaims, expiries, orphaned, storeFailed,
                   faults, invocations, parseVars, replayVars, sideVars>>

\* return { batchItemFailures }: the event source deletes the records the
\* response does not name and leaves the named ones to become visible again
ReportBatchItemFailures(q, b, failures) ==
    [m \in MsgIds |-> IF m \in Range(b)
                      THEN IF m \in Range(failures) THEN "visible" ELSE "deleted"
                      ELSE q[m]]

\* the state in which the handler returns: the loop is over
Returning(w) == pc[w] = "loop" /\ idx[w] > Len(batch[w])

EndInvocation(w) ==
    /\ pc' = [pc EXCEPT ![w] = "idle"]
    /\ batch' = [batch EXCEPT ![w] = <<>>]
    /\ idx' = [idx EXCEPT ![w] = 1]
    /\ batchItemFailures' = [batchItemFailures EXCEPT ![w] = <<>>]
    /\ trace' = [trace EXCEPT ![w] = <<>>]
    /\ log' = [log EXCEPT ![w] = <<>>]

HandlerReturn(w) ==
    /\ Returning(w)
    /\ qstate' = ReportBatchItemFailures(qstate, batch[w], batchItemFailures[w])
    /\ EndInvocation(w)
    /\ UNCHANGED <<body, rcv, table, ghostVars, parseVars, replayVars, sideVars>>

(***************************************************************************)
(* The invocation is aborted (timeout, crash): no response, so every       *)
(* record of the batch becomes visible again.                              *)
(***************************************************************************)
\* (mutation) the records of an unanswered invocation are acknowledged
NoResponseAcknowledging(q, b) ==
    [m \in MsgIds |-> IF m \in Range(b) THEN "deleted" ELSE q[m]]

\* the queue after an invocation that gave no response: none of its records
\* is acknowledged
NoResponse(q, b) ==
    [m \in MsgIds |-> IF m \in Range(b) THEN "visible" ELSE q[m]]

Abort(w) ==
    /\ pc[w] \in {"loop", "process"}
    /\ faults < MaxFaults
    /\ faults' = faults + 1
    /\ orphaned' = IF pc[w] = "process"
                   THEN orphaned \cup {body[batch[w][idx[w]]].detail.eventId}
                   ELSE orphaned
    /\ qstate' = NoResponse(qstate, batch[w])
    /\ EndInvocation(w)
    /\ UNCHANGED <<body, rcv, table, calls, completed, newClaims, expiries, storeFailed,
                   invocations, parseVars, replayVars, sideVars>>

(***************************************************************************)
(* The main queue's redrive policy and the table's TTL.                    *)
(***************************************************************************)
MoveToDlq(m) ==
    /\ qstate[m] = "visible"
    /\ rcv[m] >= MaxReceiveCount
    /\ qstate' = [qstate EXCEPT ![m] = "dlq"]
    /\ UNCHANGED <<body, rcv, table, workerVars, ghostVars, parseVars, replayVars, sideVars>>

\* (mutation) the table keeps an expired item
KeepExpired(tbl, e) == tbl

\* the table after its TTL removed the item of e
RemoveExpired(tbl, e) == {r \in tbl : r.eventId # e}

Expire(e) ==
    /\ HasItem(table, e)
    /\ faults < MaxFaults
    /\ faults' = faults + 1
    /\ table' = RemoveExpired(table, e)
    /\ expiries' = [expiries EXCEPT ![e] = @ + 1]
    /\ UNCHANGED <<queueVars, workerVars, calls, completed, newClaims, orphaned,
                   storeFailed, invocations, parseVars, replayVars, sideVars>>

Next ==
    \/ \E w \in Workers : \E b \in Batches : Invoke(w, b)
    \/ \E w \in Workers : HandlerClaim(w)
    \/ \E w \in Workers : HandlerProcess(w)
    \/ \E w \in Workers : HandlerReturn(w)
    \/ \E w \in Workers : Abort(w)
    \/ \E e \in EventIds : Expire(e)

Spec == Init /\ [][Next]_vars

(***************************************************************************)
(* The worker as deployed with or without TABLE_NAME in its environment.   *)
(***************************************************************************)
InitEnvironment ==
    /\ TABLE_NAME \in BOOLEAN
    /\ body \in QueueContents
    /\ qstate = [m \in MsgIds |-> "visible"]
    /\ rcv = [m \in MsgIds |-> 0]
    /\ table = {}
    /\ InitWorker
    /\ InitGhost
    /\ pin = EmptyBody
    /\ pout = "none"
    /\ NoReplay
    /\ EVENT_BUS_NAME = TRUE
    /\ IdleApi
    /\ TTL_DAYS_ENV = <<>>
    /\ lastClaim = NoClaim
    /\ visibleAt = [m \in MsgIds |-> 0]
    /\ startedAt = [w \in Workers |-> 0]
    /\ nowMs = 0

SpecEnvironment == InitEnvironment /\ [][Next]_vars

(***************************************************************************)
(* The main queue with its redrive policy: the event source goes on        *)
(* delivering a message for as long as the queue holds it, and the queue   *)
(* moves it to the dead-letter queue once it was received MaxReceiveCount  *)
(* times without being deleted.                                            *)
(***************************************************************************)
Redeliver(w, b) ==
    /\ pc[w] = "idle"
    /\ qstate' = [m \in MsgIds |-> IF m \in Range(b) THEN "inflight" ELSE qstate[m]]
    /\ rcv' = [m \in MsgIds |-> IF m \in Range(b) THEN rcv[m] + 1 ELSE rcv[m]]
    /\ pc' = [pc EXCEPT ![w] = "loop"]
    /\ batch' = [batch EXCEPT ![w] = b]
    /\ idx' = [idx EXCEPT ![w] = 1]
    /\ batchItemFailures' = [batchItemFailures EXCEPT ![w] = <<>>]
    /\ trace' = [trace EXCEPT ![w] = <<>>]
    /\ log' = [log EXCEPT ![w] = <<>>]
    /\ UNCHANGED <<body, table, ghostVars, parseVars, replayVars, sideVars>>

NextRedrive ==
    \/ \E w \in Workers : \E b \in Batches : Redeliver(w, b)
    \/ \E w \in Workers : HandlerClaim(w)
    \/ \E w \in Workers : HandlerProcess(w)
    \/ \E w \in Workers : HandlerReturn(w)
    \/ \E w \in Workers : Abort(w)
    \/ \E m \in MsgIds : MoveToDlq(m)
    \/ \E e \in EventIds : Expire(e)

SpecRedrive == Init /\ [][NextRedrive]_vars

(***************************************************************************)
(* The parser alone, applied to every payload of AllBodies.                *)
(***************************************************************************)
InitParse ==
    /\ pin \in AllBodies
    /\ pout = "none"
    /\ body = [m \in MsgIds |-> EmptyBody]
    /\ qstate = [m \in MsgIds |-> "deleted"]
    /\ rcv = [m \in MsgIds |-> 0]
    /\ table = {}
    /\ InitWorker
    /\ InitGhost
    /\ NoReplay
    /\ NoSide

ParseOnly ==
    /\ pout = "none"
    /\ pout' = IF parseEventBridgeEnvelope(pin) THEN "accepted" ELSE "rejected"
    /\ UNCHANGED <<pin, queueVars, table, workerVars, ghostVars, replayVars, sideVars>>

NextParse == ParseOnly

SpecParse == InitParse /\ [][NextParse]_vars

(***************************************************************************)
(* The API handler (POST /orders): parseBody, validateOrderPayload and     *)
(* handler, cut at its await of the PutEvents call.                        *)
(***************************************************************************)
MaxRequests == 2

RECURSIVE TrimStart(_)
TrimStart(c) == IF Len(c) > 0 /\ Head(c) \in {" ", "\t", "\n", "\r"} THEN TrimStart(Tail(c)) ELSE c

RECURSIVE TrimEnd(_)
TrimEnd(c) ==
    IF Len(c) > 0 /\ c[Len(c)] \in {" ", "\t", "\n", "\r"}
    THEN TrimEnd(SubSeq(c, 1, Len(c) - 1))
    ELSE c

\* String.prototype.trim
Trim(c) == TrimEnd(TrimStart(c))

Letters ==
    [ upper |->
    <<"A", "B", "C", "D", "E", "F", "G", "H", "I", "J", "K", "L", "M", "N",
        "O", "P", "Q", "R", "S", "T", "U", "V", "W", "X", "Y", "Z">>,
      lower |->
    <<"a", "b", "c", "d", "e", "f", "g", "h", "i", "j", "k", "l", "m", "n",
        "o", "p", "q", "r", "s", "t", "u", "v", "w", "x", "y", "z">> ]

\* String.prototype.toLowerCase
ToLowerCase(c) ==
    [i \in 1..Len(c) |->
        IF \E k \in 1..Len(Letters.upper) : Letters.upper[k] = c[i]
        THEN Letters.lower[CHOOSE k \in 1..Len(Letters.upper) : Letters.upper[k] = c[i]]
        ELSE c[i]]

\* String.prototype.includes
Includes(c, sub) ==
    \E i \in 0..(Len(c) - Len(sub)) : SubSeq(c, i + 1, i + Len(sub)) = sub

DecimalDigits == <<"0", "1", "2", "3", "4", "5", "6", "7", "8", "9">>

\* the decimal numeral a template literal writes for an index
RECURSIVE Decimal(_)
Decimal(n) ==
    IF n < 10 THEN <<DecimalDigits[n + 1]>>
    ELSE Decimal(n \div 10) \o <<DecimalDigits[(n % 10) + 1]>>

\* The messages of the errors thrown and of the responses, the last three those
\* of errors the PutEvents call rejects with.  skuTail and qtyTail follow
\* "items[" and the index.
ApiMessages ==
    [ missingBody |->
      <<"M", "i", "s", "s", "i", "n", "g", " ", "r", "e", "q", "u", "e", "s",
        "t", " ", "b", "o", "d", "y">>,
      invalidJson |->
      <<"I", "n", "v", "a", "l", "i", "d", " ", "J", "S", "O", "N", " ", "b",
        "o", "d", "y">>,
      items |->
      <<"i", "t", "e", "m", "s", " ", "m", "u", "s", "t", " ", "b", "e", " ",
        "a", " ", "n", "o", "n", "-", "e", "m", "p", "t", "y", " ", "a", "r",
        "r", "a", "y">>,
      skuTail |->
      <<"]", ".", "s", "k", "u", " ", "m", "u", "s", "t", " ", "b", "e", " ",
        "a", " ", "n", "o", "n", "-", "e", "m", "p", "t", "y", " ", "s", "t",
        "r", "i", "n", "g">>,
      qtyTail |->
      <<"]", ".", "q", "t", "y", " ", "m", "u", "s", "t", " ", "b", "e", " ",
        "a", " ", "p", "o", "s", "i", "t", "i", "v", "e", " ", "n", "u", "m",
        "b", "e", "r">>,
      customerId |->
      <<"c", "u", "s", "t", "o", "m", "e", "r", "I", "d", " ", "m", "u", "s",
        "t", " ", "b", "e", " ", "a", " ", "s", "t", "r", "i", "n", "g", " ",
        "i", "f", " ", "p", "r", "o", "v", "i", "d", "e", "d">>,
      orderId |->
      <<"o", "r", "d", "e", "r", "I", "d", " ", "m", "u", "s", "t", " ", "b",
        "e", " ", "a", " ", "s", "t", "r", "i", "n", "g", " ", "i", "f", " ",
        "p", "r", "o", "v", "i", "d", "e", "d">>,
      internal |->
      <<"I", "n", "t", "e", "r", "n", "a", "l", " ", "s", "e", "r", "v", "e",
        "r", " ", "e", "r", "r", "o", "r">>,
      failedToPublish |->
      <<"F", "a", "i", "l", "e", "d", " ", "t", "o", " ", "p", "u", "b", "l",
        "i", "s", "h", " ", "e", "v", "e", "n", "t">>,
      badRequest |->
      <<"B", "a", "d", " ", "r", "e", "q", "u", "e", "s", "t">>,
      unavailable |->
      <<"S", "e", "r", "v", "i", "c", "e", " ", "U", "n", "a", "v", "a", "i",
        "l", "a", "b", "l", "e">>,
      invalidToken |->
      <<"T", "h", "e", " ", "s", "e", "c", "u", "r", "i", "t", "y", " ", "t",
        "o", "k", "e", "n", " ", "i", "n", "c", "l", "u", "d", "e", "d", " ",
        "i", "n", " ", "t", "h", "e", " ", "r", "e", "q", "u", "e", "s", "t",
        " ", "i", "s", " ", "i", "n", "v", "a", "l", "i", "d", ".">>,
      timedOut |->
      <<"C", "o", "n", "n", "e", "c", "t", "i", "o", "n", " ", "t", "i", "m",
        "e", "d", " ", "o", "u", "t">> ]

ItemMessage(index, what) == <<"i", "t", "e", "m", "s", "[">> \o Decimal(index) \o what

ApiThrown(message) ==
    [threw |-> TRUE, message |-> message, value |-> NullPayload,
     customerId |-> Undefined, orderId |-> Undefined, items |-> <<>>]

parseBody(req) ==
    IF req.body.kind = "missing" THEN ApiThrown(ApiMessages.missingBody)
    ELSE IF req.body.kind = "invalid" THEN ApiThrown(ApiMessages.invalidJson)
    ELSE [ApiThrown(<<>>) EXCEPT !.threw = FALSE, !.value = req.body.payload]

BadSku(item) ==
    \/ item.kind = "null"
    \/ item.sku.type # "string"
    \/ Len(Trim(item.sku.chars)) = 0

\* (mutation) a qty of zero passes
BadQtyBelowZero(item) ==
    \/ item.qty.type # "number"
    \/ ~item.qty.finite
    \/ item.qty.n < 0

BadQty(item) ==
    \/ item.qty.type # "number"
    \/ ~item.qty.finite
    \/ item.qty.n <= 0

validateOrderPayload(payload) ==
    LET items == IF payload.kind = "null" THEN NoItems ELSE payload.items
        customerId == IF payload.kind = "null" THEN Undefined ELSE payload.customerId
        orderId == IF payload.kind = "null" THEN Undefined ELSE payload.orderId
        bad == {i \in 1..Len(items.elems) : BadSku(items.elems[i]) \/ BadQty(items.elems[i])}
        first == CHOOSE i \in bad : \A j \in bad : i <= j
    IN  IF ~items.isArray \/ Len(items.elems) = 0 THEN ApiThrown(ApiMessages.items)
        ELSE IF bad # {}
             THEN IF BadSku(items.elems[first])
                  THEN ApiThrown(ItemMessage(first - 1, ApiMessages.skuTail))
                  ELSE ApiThrown(ItemMessage(first - 1, ApiMessages.qtyTail))
        ELSE IF customerId.type # "undefined" /\ TypeOf(customerId) # "string"
             THEN ApiThrown(ApiMessages.customerId)
        ELSE IF orderId.type # "undefined" /\ TypeOf(orderId) # "string"
             THEN ApiThrown(ApiMessages.orderId)
        ELSE [ApiThrown(<<>>) EXCEPT
                 !.threw = FALSE,
                 !.customerId = customerId,
                 !.orderId = orderId,
                 !.items = [i \in 1..Len(items.elems) |->
                               [sku |-> items.elems[i].sku.chars, qty |-> items.elems[i].qty.n]]]

\* the n-th value uuidv4() returns
Uuid(n) == "uuid-" \o ToString(n)

\* maybeOrderId || uuidv4()
OrderIdOr(maybeOrderId, generated) ==
    IF NonEmptyString(maybeOrderId) THEN maybeOrderId.s ELSE generated

\* the catch block's status code
StatusCodeOf(message) ==
    IF \/ Includes(ToLowerCase(message), <<"m", "u", "s", "t">>)
       \/ Includes(ToLowerCase(message), <<"i", "n", "v", "a", "l", "i", "d">>)
    THEN 400
    ELSE 500

ApiLogLine(level, msg, requestId, eventId, orderId) ==
    [level |-> level, msg |-> msg, requestId |-> requestId, eventId |-> eventId,
     orderId |-> orderId]

\* the catch block
ApiCatch(requestId, message) ==
    /\ alog' = Append(alog, ApiLogLine("error", "Failed to handle /orders request",
                                       requestId, "", ""))
    /\ aresp' = [statusCode |-> StatusCodeOf(message), body |-> [message |-> message]]
    /\ apc' = "idle"

\* handler, up to the await of eventBridgeClient.send
ApiHandle(req) ==
    /\ apc = "idle"
    /\ handled < MaxRequests
    /\ handled' = handled + 1
    /\ areq' = req
    /\ LET n0 == IF req.requestId = "" THEN uuids + 1 ELSE uuids
           requestId == IF req.requestId = "" THEN Uuid(uuids + 1) ELSE req.requestId
           parsed == parseBody(req)
           valid == validateOrderPayload(parsed.value)
       IN  /\ arequestId' = requestId
           /\ IF ~EVENT_BUS_NAME
              THEN /\ uuids' = n0
                   /\ alog' = Append(alog, ApiLogLine("error",
                                 "Missing EVENT_BUS_NAME environment variable",
                                 requestId, "", ""))
                   /\ aresp' = [statusCode |-> 500, body |-> [message |-> ApiMessages.internal]]
                   /\ UNCHANGED <<apc, adetail, bus>>
              ELSE IF parsed.threw \/ valid.threw
              THEN /\ uuids' = n0
                   /\ ApiCatch(requestId,
                               IF parsed.threw THEN parsed.message ELSE valid.message)
                   /\ UNCHANGED <<adetail, bus>>
              ELSE /\ uuids' = IF NonEmptyString(valid.orderId) THEN n0 + 1 ELSE n0 + 2
                   /\ adetail' = [schemaVersion |-> "1.0",
                                  eventId |-> Uuid(n0 + 1),
                                  orderId |-> OrderIdOr(valid.orderId, Uuid(n0 + 2)),
                                  createdAt |-> nowMs,
                                  customerId |-> valid.customerId,
                                  items |-> valid.items]
                   /\ apc' = "publish"
                   /\ UNCHANGED <<bus, aresp, alog>>
    /\ UNCHANGED <<EVENT_BUS_NAME, queueVars, table, workerVars, ghostVars, parseVars,
                   replayVars, TABLE_NAME, TTL_DAYS_ENV, lastClaim, visibleAt, startedAt, nowMs>>

\* what the PutEvents call can come to: accepted with FailedEntryCount 0 or
\* without one, the entry failed, or an error (before or after the bus took
\* the entry)
PutEventsOutcomes ==
    {"accepted", "acceptedNoCount", "failedEntry", "unavailable", "invalidToken",
     "timedOutAfterAccept", "notAnError"}

\* handler, from the await of eventBridgeClient.send to its return
ApiPublish(outcome) ==
    /\ apc = "publish"
    /\ bus' = IF outcome \in {"accepted", "acceptedNoCount", "timedOutAfterAccept"}
              THEN Append(bus, [Source |-> "myapp.orders", DetailType |-> "OrderCreated",
                                Detail |-> adetail])
              ELSE bus
    /\ IF outcome \in {"accepted", "acceptedNoCount"}
       THEN /\ alog' = Append(alog, ApiLogLine("info", "OrderCreated event published",
                                               arequestId, adetail.eventId, adetail.orderId))
            /\ aresp' = [statusCode |-> 202,
                          body |-> [orderId |-> adetail.orderId,
                                    eventId |-> adetail.eventId]]
            /\ apc' = "idle"
       ELSE IF outcome = "failedEntry"
       THEN /\ alog' = Append(alog, ApiLogLine("error", "Failed to publish OrderCreated event",
                                               arequestId, adetail.eventId, adetail.orderId))
            /\ aresp' = [statusCode |-> 500, body |-> [message |-> ApiMessages.failedToPublish]]
            /\ apc' = "idle"
       ELSE ApiCatch(arequestId,
                     IF outcome = "unavailable" THEN ApiMessages.unavailable
                     ELSE IF outcome = "invalidToken" THEN ApiMessages.invalidToken
                     ELSE IF outcome = "timedOutAfterAccept" THEN ApiMessages.timedOut
                     ELSE ApiMessages.badRequest)
    /\ UNCHANGED <<areq, arequestId, adetail, uuids, handled>>
    /\ UNCHANGED <<EVENT_BUS_NAME, queueVars, table, workerVars, ghostVars, parseVars,
                   replayVars, TABLE_NAME, TTL_DAYS_ENV, lastClaim, visibleAt, startedAt, nowMs>>

\* Neither the worker nor the replay tool runs, both queues are empty.
NoPipeline ==
    /\ body = [m \in MsgIds |-> EmptyBody]
    /\ qstate = [m \in MsgIds |-> "deleted"]
    /\ rcv = [m \in MsgIds |-> 0]
    /\ table = {}
    /\ InitWorker
    /\ InitGhost
    /\ pin = EmptyBody
    /\ pout = "none"
    /\ NoReplay

InitApi ==
    /\ EVENT_BUS_NAME \in BOOLEAN
    /\ IdleApi
    /\ TABLE_NAME = TRUE
    /\ TTL_DAYS_ENV = <<>>
    /\ lastClaim = NoClaim
    /\ visibleAt = [m \in MsgIds |-> 0]
    /\ startedAt = [w \in Workers |-> 0]
    /\ nowMs = 0
    /\ NoPipeline

NextApi ==
    \/ \E k \in 1..Len(ApiRequests) : ApiHandle(ApiRequests[k])
    \/ \E outcome \in PutEventsOutcomes : ApiPublish(outcome)

SpecApi == InitApi /\ [][NextApi]_vars

(***************************************************************************)
(* recordIdempotency with its clock reading: the item it puts carries      *)
(* expiresAt, which the table's TTL acts on.                               *)
(***************************************************************************)
NaN == [nan |-> TRUE, n |-> 0]
Number(n) == [nan |-> FALSE, n |-> n]

DigitValue(c) == (CHOOSE k \in 1..Len(DecimalDigits) : DecimalDigits[k] = c) - 1

\* the longest prefix of decimal digits
RECURSIVE LeadingDigits(_)
LeadingDigits(c) ==
    IF Len(c) > 0 /\ Head(c) \in Range(DecimalDigits)
    THEN <<Head(c)>> \o LeadingDigits(Tail(c))
    ELSE <<>>

RECURSIVE ValueOfDigits(_)
ValueOfDigits(c) ==
    IF Len(c) = 0 THEN 0
    ELSE 10 * ValueOfDigits(SubSeq(c, 1, Len(c) - 1)) + DigitValue(c[Len(c)])

\* parseInt(text, 10): white space, a sign, then digits as far as they go
parseInt(text) ==
    LET t == TrimStart(text)
        signed == Len(t) > 0 /\ Head(t) \in {"+", "-"}
        digits == LeadingDigits(IF signed THEN Tail(t) ELSE t)
    IN  IF Len(digits) = 0 THEN NaN
        ELSE IF signed /\ Head(t) = "-" THEN Number(0 - ValueOfDigits(digits))
        ELSE Number(ValueOfDigits(digits))

\* parseInt(process.env.TTL_DAYS || '7', 10)
TTL_DAYS == parseInt(IF Len(TTL_DAYS_ENV) = 0 THEN <<"7">> ELSE TTL_DAYS_ENV)

\* Math.floor(Date.now() / 1000)
nowSeconds(ms) == ms \div 1000

\* (mutation) the days are taken for hours
ttlSecondsOfHours(seconds, days) ==
    IF days.nan THEN NaN ELSE Number(seconds + days.n * 60 * 60)

\* nowSeconds + TTL_DAYS * 24 * 60 * 60
ttlSeconds(seconds, days) ==
    IF days.nan THEN NaN ELSE Number(seconds + days.n * 24 * 60 * 60)

\* Number.prototype.toString
NumberToString(x) ==
    IF x.nan THEN <<"N", "a", "N">>
    ELSE IF x.n < 0 THEN <<"-">> \o Decimal(0 - x.n)
    ELSE Decimal(x.n)

\* the number an N attribute holds; NaN when the text is no decimal numeral
NumberOfAttribute(text) ==
    LET negative == Len(text) > 0 /\ Head(text) = "-"
        digits == IF negative THEN Tail(text) ELSE text
    IN  IF Len(digits) = 0 \/ LeadingDigits(digits) # digits THEN NaN
        ELSE IF negative THEN Number(0 - ValueOfDigits(digits))
        ELSE Number(ValueOfDigits(digits))

\* the Item of the PutItemCommand
ItemWithExpiry(detail, expiry) ==
    [eventId |-> detail.eventId, orderId |-> detail.orderId,
     createdAt |-> detail.createdAt, expiresAt |-> NumberToString(expiry)]

ItemsOf(tbl, eventId) == {r \in tbl : r.eventId = eventId}

\* (mutation) a duplicate claim renews the item's expiresAt
recordIdempotencyAtRenewing(tbl, detail, fault, ms) ==
    LET item == ItemWithExpiry(detail, ttlSeconds(nowSeconds(ms), TTL_DAYS))
        put == IF ~fault /\ NumberOfAttribute(item.expiresAt).nan
               THEN [answer |-> "ValidationException", table |-> tbl]
               ELSE PutItemCommand(tbl, item, fault)
    IN  [status |-> IF put.answer = "ok" THEN "new"
                    ELSE IF put.answer = "ConditionalCheckFailedException"
                         THEN "duplicate"
                    ELSE "threw",
         answer |-> put.answer,
         table |-> IF put.answer = "ConditionalCheckFailedException"
                   THEN {[r EXCEPT !.expiresAt = IF r.eventId = item.eventId
                                                 THEN item.expiresAt ELSE @] : r \in tbl}
                   ELSE put.table]

\* recordIdempotency called when the clock reads ms: the store rejects an
\* expiresAt that is no number, and answers the put as before
recordIdempotencyAt(tbl, detail, fault, ms) ==
    IF ~TABLE_NAME THEN [status |-> "threw", answer |-> "none", table |-> tbl]
    ELSE
    LET item == ItemWithExpiry(detail, ttlSeconds(nowSeconds(ms), TTL_DAYS))
        put == IF ~fault /\ NumberOfAttribute(item.expiresAt).nan
               THEN [answer |-> "ValidationException", table |-> tbl]
               ELSE PutItemCommand(tbl, item, fault)
    IN  [status |-> IF put.answer = "ok" THEN "new"
                    ELSE IF put.answer = "ConditionalCheckFailedException"
                         THEN "duplicate"
                    ELSE "threw",
         answer |-> put.answer,
         table |-> put.table]

\* what the environment may set TTL_DAYS to: nothing, "7" as the stack does,
\* "0", "-1", " 1d" and "x"
TtlDaysEnvs ==
    {<<>>, <<"7">>, <<"0">>, <<"-", "1">>, <<" ", "1", "d">>, <<"x">>}

\* the details claimed: the same eventId with two orderIds and createdAts
ClaimedDetails ==
    {OrderCreatedDetail("e1", "o1", "t1", TRUE, <<>>),
     OrderCreatedDetail("e1", "o2", "t2", TRUE, <<>>),
     OrderCreatedDetail("e2", "o1", "t1", TRUE, <<>>)}

\* the clock's readings, in milliseconds: around a second, a day, a week
Instants == {0, 999, 1000, 86400000, 86400999, 604800000, 604800999}

\* the TTL's condition: expiresAt, in seconds, is not later than now
Expired(item, ms) == NumberOfAttribute(item.expiresAt).n <= nowSeconds(ms)

ClaimAt(detail) ==
    \E fault \in IF faults < MaxFaults THEN BOOLEAN ELSE {FALSE} :
        LET r == recordIdempotencyAt(table, detail, fault, nowMs)
        IN  /\ table' = r.table
            /\ faults' = IF fault THEN faults + 1 ELSE faults
            /\ lastClaim' = [status |-> r.status, answer |-> r.answer, at |-> nowMs,
                             item |-> ItemWithExpiry(detail,
                                         ttlSeconds(nowSeconds(nowMs), TTL_DAYS)),
                             before |-> ItemsOf(table, detail.eventId),
                             after |-> ItemsOf(r.table, detail.eventId)]
            /\ UNCHANGED nowMs
            /\ UNCHANGED <<queueVars, workerVars, calls, completed, newClaims, expiries, orphaned,
                           storeFailed, invocations, parseVars, replayVars, apiVars, visibleAt, startedAt,
                           TABLE_NAME, TTL_DAYS_ENV>>

ClockAdvances(ms) ==
    /\ ms > nowMs
    /\ nowMs' = ms
    /\ UNCHANGED <<table, faults, lastClaim>>
    /\ UNCHANGED <<queueVars, workerVars, calls, completed, newClaims, expiries, orphaned,
                   storeFailed, invocations, parseVars, replayVars, apiVars, visibleAt, startedAt,
                   TABLE_NAME, TTL_DAYS_ENV>>

TtlRemoves(item) ==
    /\ item \in table
    /\ Expired(item, nowMs)
    /\ table' = RemoveExpired(table, item.eventId)
    /\ UNCHANGED <<nowMs, faults, lastClaim>>
    /\ UNCHANGED <<queueVars, workerVars, calls, completed, newClaims, expiries, orphaned,
                   storeFailed, invocations, parseVars, replayVars, apiVars, visibleAt, startedAt,
                   TABLE_NAME, TTL_DAYS_ENV>>

InitTtl ==
    /\ TABLE_NAME = TRUE
    /\ TTL_DAYS_ENV \in TtlDaysEnvs
    /\ lastClaim = NoClaim
    /\ nowMs = 0
    /\ visibleAt = [m \in MsgIds |-> 0]
    /\ startedAt = [w \in Workers |-> 0]
    /\ EVENT_BUS_NAME = TRUE
    /\ IdleApi
    /\ NoPipeline

NextTtl ==
    \/ \E detail \in ClaimedDetails : ClaimAt(detail)
    \/ \E ms \in Instants : ClockAdvances(ms)
    \/ \E item \in table : TtlRemoves(item)

SpecTtl == InitTtl /\ [][NextTtl]_vars

(***************************************************************************)
(* The main queue's visibility window against the worker's timeout.  An    *)
(* invocation starts when its batch is received; the handler's body is     *)
(* left open (any list of failures may be reported); the clock moves in    *)
(* steps of thirty seconds.                                                *)
(***************************************************************************)
MaxTicks == 31

VisibilityTimeoutSeconds == 180

WorkerTimeoutSeconds == 30

TickMs == 30 * 1000

\* (mutation) a received message stays visible
VisibleAgainAtOnce(ms) == ms

\* when the visibility window of a message received at ms ends
VisibleAgainAt(ms) == ms + VisibilityTimeoutSeconds * 1000

\* when the invocation started at ms is stopped
DeadlineOf(ms) == ms + WorkerTimeoutSeconds * 1000

TimedFrame ==
    UNCHANGED <<body, table, calls, completed, newClaims, expiries, orphaned, storeFailed,
                invocations, parseVars, replayVars, apiVars, TABLE_NAME, TTL_DAYS_ENV, lastClaim>>

\* the event source receives a batch and invokes the handler with it
TimedInvoke(w, b) ==
    /\ pc[w] = "idle"
    /\ qstate' = [m \in MsgIds |-> IF m \in Range(b) THEN "inflight" ELSE qstate[m]]
    /\ rcv' = [m \in MsgIds |-> IF m \in Range(b) THEN rcv[m] + 1 ELSE rcv[m]]
    /\ visibleAt' = [m \in MsgIds |-> IF m \in Range(b) THEN VisibleAgainAt(nowMs)
                                      ELSE visibleAt[m]]
    /\ startedAt' = [startedAt EXCEPT ![w] = nowMs]
    /\ pc' = [pc EXCEPT ![w] = "loop"]
    /\ batch' = [batch EXCEPT ![w] = b]
    /\ UNCHANGED <<idx, batchItemFailures, trace, log, nowMs, faults>>
    /\ TimedFrame

\* the handler returns within its timeout: the records it does not report
\* are deleted, the others stay in flight until their window ends
TimedReturn(w, failures) ==
    /\ pc[w] # "idle"
    /\ nowMs <= DeadlineOf(startedAt[w])
    /\ qstate' = [m \in MsgIds |-> IF m \in Range(batch[w]) \ failures THEN "deleted"
                                   ELSE qstate[m]]
    /\ visibleAt' = [m \in MsgIds |-> IF m \in Range(batch[w]) \ failures THEN 0
                                      ELSE visibleAt[m]]
    /\ startedAt' = [startedAt EXCEPT ![w] = 0]
    /\ EndInvocation(w)
    /\ UNCHANGED <<rcv, nowMs, faults>>
    /\ TimedFrame

\* the invocation is stopped at its timeout: nothing is deleted
TimedOut(w) ==
    /\ pc[w] # "idle"
    /\ nowMs = DeadlineOf(startedAt[w])
    /\ faults < MaxFaults
    /\ faults' = faults + 1
    /\ startedAt' = [startedAt EXCEPT ![w] = 0]
    /\ EndInvocation(w)
    /\ UNCHANGED <<qstate, rcv, visibleAt, nowMs>>
    /\ TimedFrame

\* the window of a message in flight ended: it is visible again, or moved to
\* the dead-letter queue when it was received MaxReceiveCount times
WindowEnds(m) ==
    /\ qstate[m] = "inflight"
    /\ nowMs >= visibleAt[m]
    /\ qstate' = [qstate EXCEPT ![m] = IF rcv[m] >= MaxReceiveCount THEN "dlq"
                                       ELSE "visible"]
    /\ visibleAt' = [visibleAt EXCEPT ![m] = 0]
    /\ UNCHANGED <<rcv, workerVars, startedAt, nowMs, faults>>
    /\ TimedFrame

\* thirty seconds pass; no invocation runs beyond its timeout
TimePasses ==
    /\ nowMs + TickMs <= MaxTicks * TickMs
    /\ \A w \in Workers : pc[w] # "idle" => nowMs + TickMs <= DeadlineOf(startedAt[w])
    /\ nowMs' = nowMs + TickMs
    /\ UNCHANGED <<queueVars, workerVars, visibleAt, startedAt, faults>>
    /\ TimedFrame

InitTimed ==
    /\ body = [m \in MsgIds |-> PipelineBodies[3]]
    /\ qstate = [m \in MsgIds |-> "visible"]
    /\ rcv = [m \in MsgIds |-> 0]
    /\ table = {}
    /\ InitWorker
    /\ InitGhost
    /\ pin = EmptyBody
    /\ pout = "none"
    /\ NoReplay
    /\ NoSide

NextTimed ==
    \/ \E w \in Workers : \E b \in Batches : TimedInvoke(w, b)
    \/ \E w \in Workers : \E failures \in SUBSET Range(batch[w]) : TimedReturn(w, failures)
    \/ \E w \in Workers : TimedOut(w)
    \/ \E m \in MsgIds : WindowEnds(m)
    \/ TimePasses

SpecTimed == InitTimed /\ [][NextTimed]_vars

(***************************************************************************)
(* replay-dlq.ts: main() and replayOnce(), cut at their awaits.            *)
(***************************************************************************)
\* A line the tool prints: the ids, the count and the total its text carries.
LogLine(kind, ids, n, total) == [kind |-> kind, ids |-> ids, n |-> n, total |-> total]

\* (mutation) the process ends with status 0 whatever happened
ExitStatusZero(threw) == "0"

\* process.exit(1) of the guard on the environment and of main().catch; a
\* main() that returns ends the process with status 0
ExitStatus(threw) == IF threw THEN "1" ELSE "0"

\* (mutation) only a message without a body is passed over
SkippedWithoutBody(msg) == msg.lacks = "Body"

\* the guard at the top of the for loop: the message is passed over
Skipped(msg) == msg.lacks # "nothing"

\* (mutation) a failed send is counted too
CountAfterSendAlways(count, sent) == count + 1

\* processedCount after the send of one message
CountAfterSend(count, sent) == IF sent THEN count + 1 ELSE count

\* (mutation) the message is queued for deletion whatever the send did
QueueForDeleteAlways(list, d, sent) == Append(list, d)

\* toDelete after the send of one message
QueueForDelete(list, d, sent) == IF sent THEN Append(list, d) ELSE list

\* (mutation) the forwarded event gets the other eventId
MessageBodyRekeyed(msg) ==
    IF msg.body.hasDetail /\ msg.body.detail.eventId \in EventIds
    THEN [msg.body EXCEPT !.detail.eventId =
              CHOOSE e \in EventIds : e # msg.body.detail.eventId]
    ELSE msg.body

\* MessageBody of the SendMessageCommand: msg.Body as received
MessageBody(msg) == msg.body

\* the line printed when the batch delete reports failed entries
DeleteFailedLine(failed) == LogLine("deleteFailed", {}, Cardinality(failed), 0)

\* (mutation) a round that forwarded one message ends the run as well
LoopEndsEarly(replayed) == replayed <= 1

\* the test of main()'s loop on what replayOnce returned
LoopEnds(replayed) == replayed = 0

\* the top of the script: both URLs must be set
ReplayStart ==
    /\ rpc = "start"
    /\ IF MAIN_QUEUE_URL /\ DLQ_URL
       THEN /\ rpc' = "receive"
            /\ UNCHANGED <<exitCode, rlog, fatal>>
       ELSE /\ rpc' = "exited"
            /\ exitCode' = ExitStatus(TRUE)
            /\ rlog' = Append(rlog, LogLine("fatal", {}, 0, 0))
            /\ fatal' = "env"
    /\ UNCHANGED <<MAIN_QUEUE_URL, DLQ_URL, dlq, messages, ri, processedCount, toDelete,
                   totalReplayed, mainSent, arrived, round, everReceived, undeleted,
                   rfaults>>
    /\ UNCHANGED <<queueVars, table, workerVars, ghostVars, parseVars, sideVars>>

\* an awaited call throws: main() rejects, main().catch prints and exits
Rejected(call) ==
    /\ rfaults < MaxReplayFaults
    /\ rfaults' = rfaults + 1
    /\ rpc' = "exited"
    /\ exitCode' = ExitStatus(TRUE)
    /\ rlog' = Append(rlog, LogLine("fatal", {}, 0, 0))
    /\ fatal' = call

\* replayOnce returned to main(): its counter and its list are gone, and the
\* loop ends or goes on
Returned(replayed, lines) ==
    /\ ri' = 1
    /\ processedCount' = 0
    /\ toDelete' = <<>>
    /\ IF LoopEnds(replayed)
       THEN /\ rpc' = "done"
            /\ exitCode' = ExitStatus(FALSE)
            /\ rlog' = lines \o <<LogLine("done", {}, 0, totalReplayed)>>
            /\ UNCHANGED totalReplayed
       ELSE /\ rpc' = "receive"
            /\ totalReplayed' = totalReplayed + replayed
            /\ rlog' = lines \o <<LogLine("batch", {}, replayed, totalReplayed + replayed)>>
            /\ UNCHANGED exitCode

Visible == {d \in DOMAIN dlq : dlq[d].state = "visible"}

RECURSIVE InIdOrder(_)
InIdOrder(S) ==
    IF S = {} THEN <<>>
    ELSE LET d == CHOOSE x \in S : \A y \in S : x <= y
         IN  <<d>> \o InIdOrder(S \ {d})

\* (mutation) the receive returns any number of the visible messages
ReceivedUncapped ==
    IF Visible = {} THEN {<<>>}
    ELSE {InIdOrder(S) : S \in {T \in SUBSET Visible : T # {}}}

\* What a receive can return: nothing when no message is visible, else some of
\* the visible messages, at most MaxNumberOfMessages of them.
Received ==
    IF Visible = {} THEN {<<>>}
    ELSE {InIdOrder(S) : S \in {T \in SUBSET Visible :
                            T # {} /\ Cardinality(T) <= MaxNumberOfMessages}}

\* await sqsClient.send(receiveCommand)
ReplayReceive ==
    /\ rpc = "receive"
    /\ \/ /\ Rejected("receive")
          /\ UNCHANGED <<dlq, messages, ri, processedCount, toDelete, totalReplayed,
                         round, everReceived>>
       \/ \E msgs \in Received :
            /\ messages' = msgs
            /\ round' = round + 1
            /\ everReceived' = everReceived \cup Range(msgs)
            /\ dlq' = [d \in DOMAIN dlq |-> IF d \in Range(msgs)
                                         THEN [dlq[d] EXCEPT !.state = "inflight"]
                                         ELSE dlq[d]]
            /\ IF msgs = <<>>
               THEN Returned(0, rlog)
               ELSE /\ rpc' = "send"
                    /\ ri' = 1
                    /\ processedCount' = 0
                    /\ toDelete' = <<>>
                    /\ UNCHANGED <<totalReplayed, exitCode, rlog>>
            /\ UNCHANGED <<fatal, rfaults>>
    /\ UNCHANGED <<MAIN_QUEUE_URL, DLQ_URL, mainSent, arrived, undeleted>>
    /\ UNCHANGED <<queueVars, table, workerVars, ghostVars, parseVars, sideVars>>

\* one iteration of the for loop: the guard, then await the SendMessageCommand
ReplaySend ==
    /\ rpc = "send"
    /\ LET d == messages[ri]
       IN  \E sent \in IF Skipped(dlq[d]) THEN {FALSE}
                       ELSE IF rfaults < MaxReplayFaults THEN BOOLEAN ELSE {TRUE} :
             /\ processedCount' = CountAfterSend(processedCount, sent)
             /\ toDelete' = QueueForDelete(toDelete, d, sent)
             /\ mainSent' = IF sent
                            THEN Append(mainSent, [from |-> d, body |-> MessageBody(dlq[d]),
                                                   round |-> round])
                            ELSE mainSent
             /\ rlog' = IF ~sent /\ ~Skipped(dlq[d])
                        THEN Append(rlog, LogLine("sendFailed", {d}, 0, 0))
                        ELSE rlog
             /\ rfaults' = IF ~sent /\ ~Skipped(dlq[d]) THEN rfaults + 1 ELSE rfaults
    /\ ri' = ri + 1
    /\ rpc' = IF ri + 1 > Len(messages) THEN "delete" ELSE "send"
    /\ UNCHANGED <<MAIN_QUEUE_URL, DLQ_URL, dlq, messages, totalReplayed, exitCode,
                   arrived, round, everReceived, undeleted, fatal>>
    /\ UNCHANGED <<queueVars, table, workerVars, ghostVars, parseVars, sideVars>>

\* the queue after a batch delete that removed the entries of removed
DeleteMessageBatch(q, removed) ==
    [d \in DOMAIN q |-> IF d \in removed THEN [q[d] EXCEPT !.state = "deleted"] ELSE q[d]]

\* after the loop: await the DeleteMessageBatchCommand when toDelete is not
\* empty, then return processedCount to main()
ReplayDelete ==
    /\ rpc = "delete"
    /\ IF toDelete = <<>>
       THEN /\ Returned(processedCount, rlog)
            /\ UNCHANGED <<dlq, undeleted, fatal, rfaults>>
       ELSE \/ \E removed \in SUBSET Range(toDelete) :
                 /\ Rejected("delete")
                 /\ dlq' = DeleteMessageBatch(dlq, removed)
                 /\ UNCHANGED <<undeleted, totalReplayed, ri, processedCount, toDelete>>
            \/ \E failed \in SUBSET Range(toDelete) :
                 /\ failed # {} => rfaults < MaxReplayFaults
                 /\ rfaults' = IF failed # {} THEN rfaults + 1 ELSE rfaults
                 /\ dlq' = DeleteMessageBatch(dlq, Range(toDelete) \ failed)
                 /\ undeleted' = undeleted \cup failed
                 /\ Returned(processedCount,
                             IF failed # {} THEN Append(rlog, DeleteFailedLine(failed))
                             ELSE rlog)
                 /\ UNCHANGED fatal
    /\ UNCHANGED <<MAIN_QUEUE_URL, DLQ_URL, messages, mainSent, arrived, round,
                   everReceived>>
    /\ UNCHANGED <<queueVars, table, workerVars, ghostVars, parseVars, sideVars>>

\* the process is killed while it runs
ReplayCrash ==
    /\ rpc \in {"receive", "send", "delete"}
    /\ rfaults < MaxReplayFaults
    /\ rfaults' = rfaults + 1
    /\ rpc' = "crashed"
    /\ exitCode' = "killed"
    /\ UNCHANGED <<MAIN_QUEUE_URL, DLQ_URL, dlq, messages, ri, processedCount, toDelete,
                   totalReplayed, rlog, mainSent, arrived, round, everReceived,
                   undeleted, fatal>>
    /\ UNCHANGED <<queueVars, table, workerVars, ghostVars, parseVars, sideVars>>

\* VisibilityTimeout of the receive: a message that was received and not
\* deleted becomes visible again.  Only a receive observes it, so the step is
\* taken when the tool is about to receive.
DlqTimeout(d) ==
    /\ rpc = "receive"
    /\ dlq[d].state = "inflight"
    /\ dlq' = [dlq EXCEPT ![d].state = "visible"]
    /\ UNCHANGED <<toolVars, replayGhostVars>>
    /\ UNCHANGED <<queueVars, table, workerVars, ghostVars, parseVars, sideVars>>

InitReplay ==
    /\ MAIN_QUEUE_URL \in BOOLEAN
    /\ DLQ_URL \in BOOLEAN
    /\ dlq \in DlqContents
    /\ InitTool
    /\ InitReplayGhost
    /\ body = [m \in MsgIds |-> EmptyBody]
    /\ qstate = [m \in MsgIds |-> "deleted"]
    /\ rcv = [m \in MsgIds |-> 0]
    /\ table = {}
    /\ InitWorker
    /\ InitGhost
    /\ pin = EmptyBody
    /\ pout = "none"
    /\ NoSide

NextReplay ==
    \/ ReplayStart
    \/ ReplayReceive
    \/ ReplaySend
    \/ ReplayDelete
    \/ ReplayCrash
    \/ \E d \in DlqIds : DlqTimeout(d)

SpecReplay == InitReplay /\ [][NextReplay]_vars

(***************************************************************************)
(* The replay tool on a backlog: the dead-letter queue holds more messages *)
(* than one receive returns.  The messages are alike, so a receive is      *)
(* taken to return the ones with the lowest ids, any number of them.  No   *)
(* call fails and the process is not killed.                               *)
(***************************************************************************)
MaxBacklog == 11

InitBacklog ==
    /\ MAIN_QUEUE_URL = TRUE
    /\ DLQ_URL = TRUE
    /\ dlq \in {[d \in 1..MaxBacklog |-> IF d <= n THEN DlqEntries[2] ELSE NoMessage] :
                  n \in (MaxBacklog - 1)..MaxBacklog}
    /\ InitTool
    /\ mainSent = <<>>
    /\ arrived = 0
    /\ round = 0
    /\ everReceived = {}
    /\ undeleted = {}
    /\ fatal = "none"
    /\ rfaults = MaxReplayFaults
    /\ body = [m \in MsgIds |-> EmptyBody]
    /\ qstate = [m \in MsgIds |-> "deleted"]
    /\ rcv = [m \in MsgIds |-> 0]
    /\ table = {}
    /\ InitWorker
    /\ InitGhost
    /\ pin = EmptyBody
    /\ pout = "none"
    /\ NoSide

NextBacklog ==
    \/ ReplayStart
    \/ /\ ReplayReceive
       /\ \A d \in Range(messages') : \A x \in Visible : x < d => x \in Range(messages')
    \/ ReplaySend
    \/ ReplayDelete

SpecBacklog == InitBacklog /\ [][NextBacklog]_vars

(***************************************************************************)
(* The replay tool and the worker together: what the tool sends arrives in *)
(* the main queue as a new message, and the worker consumes it.  The       *)
(* dead-letter queue holds messages of events that were or were not        *)
(* claimed before they were dead-lettered, and the operator may run the    *)
(* tool again.                                                             *)
(***************************************************************************)
ReplayedEntries ==
    << Message(PipelineBodies[3], "nothing", "visible"),
       Message(PipelineBodies[6], "nothing", "visible"),
       Message(PipelineBodies[4], "nothing", "visible"),
       NoMessage >>

\* one message, or two of which the second may carry the first one's eventId
ReplayedContents ==
    {[d \in DlqIds |-> IF d = 1 THEN ReplayedEntries[i]
                       ELSE IF d = 2 THEN ReplayedEntries[j] ELSE NoMessage] :
        i \in 1..2, j \in 3..4}

\* the events of the dead-letter queue's messages
DlqEvents(q) == {q[d].body.detail.eventId : d \in {x \in DlqIds : q[x].state # "absent"}}

\* the record an earlier delivery wrote for the event of a dead-lettered message
RecordOf(q, e) ==
    IdempotencyItem(q[CHOOSE d \in DlqIds :
                        q[d].state # "absent" /\ q[d].body.detail.eventId = e].body.detail)

InitReplayed ==
    /\ MAIN_QUEUE_URL = TRUE
    /\ DLQ_URL = TRUE
    /\ dlq \in ReplayedContents
    /\ InitTool
    /\ InitReplayGhost
    /\ body = [m \in MsgIds |-> EmptyBody]
    /\ qstate = [m \in MsgIds |-> "absent"]
    /\ rcv = [m \in MsgIds |-> 0]
    /\ \E claimed \in SUBSET DlqEvents(dlq) :
          /\ table = {RecordOf(dlq, e) : e \in claimed}
          /\ newClaims = [e \in EventIds |-> IF e \in claimed THEN 1 ELSE 0]
          /\ calls = [e \in EventIds |-> IF e \in claimed THEN 1 ELSE 0]
    /\ completed = [e \in EventIds |-> 0]
    /\ expiries = [e \in EventIds |-> 0]
    /\ orphaned = {}
    /\ storeFailed = {}
    /\ faults = 0
    /\ invocations = 0
    /\ InitWorker
    /\ pin = EmptyBody
    /\ pout = "none"
    /\ NoSide

\* the main queue makes the next accepted send visible, as a new message.  The
\* tool never reads the main queue, so the arrivals are taken once it stopped.
Arrive(m) ==
    /\ rpc \in {"done", "exited", "crashed"}
    /\ m = arrived + 1
    /\ m <= Len(mainSent)
    /\ arrived' = m
    /\ body' = [body EXCEPT ![m] = mainSent[m].body]
    /\ qstate' = [qstate EXCEPT ![m] = "visible"]
    /\ UNCHANGED <<rcv, table, workerVars, ghostVars, parseVars, sideVars>>
    /\ UNCHANGED <<dlq, toolVars, mainSent, round, everReceived, undeleted, fatal, rfaults>>

\* the operator runs the tool again
ReplayAgain ==
    /\ rpc \in {"done", "exited", "crashed"}
    /\ arrived = 0
    /\ Len(mainSent) < Cardinality(MsgIds)
    /\ rpc' = "start"
    /\ messages' = <<>>
    /\ ri' = 1
    /\ processedCount' = 0
    /\ toDelete' = <<>>
    /\ totalReplayed' = 0
    /\ exitCode' = "none"
    /\ rlog' = <<>>
    /\ round' = 0
    /\ fatal' = "none"
    /\ UNCHANGED <<MAIN_QUEUE_URL, DLQ_URL, dlq, mainSent, arrived, everReceived,
                   undeleted, rfaults>>
    /\ UNCHANGED <<queueVars, table, workerVars, ghostVars, parseVars, sideVars>>

\* one invocation at a time consumes the replayed messages
ReplayedWorker == "w1"

NextReplayed ==
    \/ ReplayStart
    \/ ReplayReceive
    \/ Len(mainSent) < Cardinality(MsgIds) /\ ReplaySend
    \/ ReplayDelete
    \/ ReplayAgain
    \/ \E d \in DlqIds : DlqTimeout(d)
    \/ \E m \in MsgIds : Arrive(m)
    \/ \E b \in Batches : Invoke(ReplayedWorker, b)
    \/ HandlerClaim(ReplayedWorker)
    \/ HandlerProcess(ReplayedWorker)
    \/ HandlerReturn(ReplayedWorker)

SpecReplayed == InitReplayed /\ [][NextReplayed]_vars

(***************************************************************************)
(* Vocabulary of the properties.                                           *)
(***************************************************************************)
\* Malformed in the sense of the envelope checks of the specification: the
\* payload is empty, is no structured data, lacks source, type or detail, or
\* its detail is no complete Order Event.
MalformedEnvelope(b) ==
    \/ b.kind # "object"
    \/ ~Truthy(b.source) \/ ~Truthy(b.detailType) \/ ~b.hasDetail
    \/ b.detail.eventId = Missing \/ b.detail.orderId = Missing
    \/ b.detail.createdAt = Missing
    \/ ~b.detail.hasItems \/ b.detail.items = <<>>
    \/ \E i \in 1..Len(b.detail.items) :
            b.detail.items[i].sku = "" \/ b.detail.items[i].qty <= 0

\* The records of the current invocation of w that are resolved: every one
\* before the loop's position.
Resolved(w) == {i \in 1..Len(trace[w]) : i < idx[w]}

EventOf(m) == body[m].detail.eventId

(***************************************************************************)
(* C7 -- Envelope parsing rejects every payload that is malformed in the   *)
(* sense of the specification's checks and accepts every other payload.    *)
(* Stated of the parser's verdict on each payload of AllBodies.  The code  *)
(* never looks inside detail, so the statement fails.                      *)
(***************************************************************************)
C7_ParseRejectsExactlyMalformed ==
    pout # "none" => (pout = "rejected" <=> MalformedEnvelope(pin))

(***************************************************************************)
(* C8 -- For an envelope that is malformed in the sense of the             *)
(* specification's checks no claim is attempted, no idempotency record is  *)
(* written for its eventId and business processing is not invoked.        *)
(* Stated of the malformed envelopes that carry an eventId.  Fails with    *)
(* C7: a detail without items passes the parser and is claimed.            *)
(***************************************************************************)
C8_MalformedHasNoSideEffect ==
    \A w \in Workers : \A i \in 1..Len(trace[w]) :
        ( /\ MalformedEnvelope(body[trace[w][i].msg])
          /\ EventOf(trace[w][i].msg) \in EventIds ) =>
            /\ trace[w][i].claim = "none"
            /\ trace[w][i].proc = "none"
            /\ trace[w][i].recAfter = trace[w][i].recBefore

(***************************************************************************)
(* C1 -- While its idempotency record has not expired, processOrder is     *)
(* invoked at most once for an eventId over all deliveries of envelopes    *)
(* carrying it, the table holds at most one record keyed by it, and every  *)
(* delivery that finds the record is classified duplicate and does not     *)
(* execute business logic.                                                 *)
(***************************************************************************)
C1_AtMostOncePerEventId ==
    /\ \A e \in EventIds :
        /\ calls[e] <= newClaims[e]
        /\ newClaims[e] <= 1 + expiries[e]
        /\ Cardinality({r \in table : r.eventId = e}) <= 1
    /\ \A w \in Workers : \A i \in 1..Len(trace[w]) :
        trace[w][i].recBefore =>
            /\ trace[w][i].claim # "new"
            /\ trace[w][i].proc = "none"
            /\ trace[w][i].answer \in {"ok", "ConditionalCheckFailedException"} =>
                    trace[w][i].claim = "duplicate"

\* a redelivered message is answered duplicate after its event was processed once
C1_Witness ==
    \E w \in Workers : \E i \in 1..Len(trace[w]) :
        /\ trace[w][i].claim = "duplicate"
        /\ rcv[trace[w][i].msg] >= 2
        /\ calls[EventOf(trace[w][i].msg)] = 1
        /\ expiries[EventOf(trace[w][i].msg)] = 0

(***************************************************************************)
(* C2 -- When two concurrent invocations attempt the conditional insert    *)
(* for the same eventId and no record existed before the first attempt,    *)
(* exactly one of them is answered new and the other duplicate, and        *)
(* processOrder runs only in the invocation that was answered new.         *)
(***************************************************************************)
C2_ClaimRace ==
    \A w1, w2 \in Workers : \A i \in 1..Len(trace[w1]) : \A j \in 1..Len(trace[w2]) :
        LET a == trace[w1][i]
            b == trace[w2][j]
        IN  ( /\ w1 # w2
              /\ a.claim \in {"new", "duplicate"}
              /\ b.claim \in {"new", "duplicate"}
              /\ EventOf(a.msg) = EventOf(b.msg)
              /\ expiries[EventOf(a.msg)] = 0
              /\ (~a.recBefore \/ ~b.recBefore) )
            => /\ (a.claim = "new") # (b.claim = "new")
               /\ a.proc # "none" => a.claim = "new"
               /\ b.proc # "none" => b.claim = "new"

\* the loser is answered while the winner has not yet run processOrder
C2_Witness ==
    \E w1, w2 \in Workers : \E j \in 1..Len(trace[w2]) :
        /\ w1 # w2
        /\ pc[w1] = "process"
        /\ trace[w1][idx[w1]].claim = "new"
        /\ trace[w2][j].claim = "duplicate"
        /\ EventOf(trace[w2][j].msg) = EventOf(trace[w1][idx[w1]].msg)
        /\ trace[w2][j].msg # trace[w1][idx[w1]].msg

(***************************************************************************)
(* C5 -- An envelope whose claim is rejected because a record exists is    *)
(* treated as handled: processOrder is not invoked for it, its messageId   *)
(* is not in batchItemFailures, and one duplicate_ignored entry carrying   *)
(* its eventId is logged.                                                  *)
(***************************************************************************)
C5_DuplicateIsAcknowledged ==
    \A w \in Workers : \A i \in 1..Len(trace[w]) :
        trace[w][i].answer = "ConditionalCheckFailedException" =>
            /\ trace[w][i].claim = "duplicate"
            /\ trace[w][i].proc = "none"
            /\ i \in Resolved(w)
            /\ trace[w][i].msg \notin Range(batchItemFailures[w])
            /\ log[w][i] = LogEntry("duplicate_ignored", EventOf(trace[w][i].msg),
                                    body[trace[w][i].msg].detail.orderId)

\* a handler about to return a batch in which one record was a duplicate
C5_Witness ==
    \E w \in Workers : \E i \in 1..Len(trace[w]) :
        /\ Returning(w)
        /\ trace[w][i].claim = "duplicate"
        /\ Len(batch[w]) = 2

(***************************************************************************)
(* C3 -- Each well-formed event without a FAIL-ME item is processed        *)
(* exactly once in effect.  An event is taken with all the messages that   *)
(* carry its eventId; it is settled when no invocation is running and the  *)
(* queue has deleted every one of them, so that nothing will deliver it    *)
(* again.                                                                  *)
(***************************************************************************)
Carriers(e) == {m \in MsgIds : EventOf(m) = e}

GoodEvent(e) ==
    /\ Carriers(e) # {}
    /\ \A m \in Carriers(e) :
          ~MalformedEnvelope(body[m]) /\ ~hasFailSku(body[m].detail)

Settled(e) ==
    /\ \A w \in Workers : pc[w] = "idle"
    /\ \A m \in Carriers(e) : qstate[m] = "deleted"

\* C3 as claimed: never more than once, and once when the event is settled.
C3_ExactlyOnceInEffect ==
    \A e \in EventIds : GoodEvent(e) =>
        /\ completed[e] <= 1
        /\ Settled(e) => completed[e] = 1

\* C3 as amended: processing completes at most once per lifetime of the
\* event's idempotency record, and a settled event has been processed unless
\* an invocation was aborted between its claim and processOrder.
C3_AtMostOnceAndOnceUnlessOrphaned ==
    \A e \in EventIds : GoodEvent(e) =>
        /\ completed[e] <= 1 + expiries[e]
        /\ Settled(e) => (completed[e] >= 1 \/ e \in orphaned)

\* an event whose first claim the store failed is settled, processed once
C3_Witness ==
    \E e \in EventIds :
        /\ GoodEvent(e)
        /\ Settled(e)
        /\ completed[e] = 1
        /\ Carriers(e) \cap storeFailed # {}

(***************************************************************************)
(* C4 -- The batchItemFailures the handler returns name exactly the        *)
(* records that failed in this invocation; a record processed successfully *)
(* or classified duplicate is absent and the queue deletes it.             *)
(***************************************************************************)
FailedAtParseOrProcess(w) ==
    {trace[w][i].msg : i \in {j \in 1..Len(trace[w]) :
        ~trace[w][j].parsed \/ trace[w][j].proc = "threw"}}

FailedRecords(w) ==
    {trace[w][i].msg : i \in {j \in 1..Len(trace[w]) :
        ~trace[w][j].parsed \/ trace[w][j].claim = "threw" \/ trace[w][j].proc = "threw"}}

\* C4 as claimed: exactly the records that failed parsing or business
\* processing (stated of the batches whose records are all well-formed or
\* rejected by the parser).
C4_FailuresAreParseOrProcessFailures ==
    \A w \in Workers :
        ( /\ Returning(w)
          /\ \A i \in 1..Len(trace[w]) :
                trace[w][i].parsed => ~MalformedEnvelope(body[trace[w][i].msg]) )
        => Range(batchItemFailures[w]) = FailedAtParseOrProcess(w)

\* C4 as amended: exactly the records that failed parsing, the claim (an error
\* of the store) or business processing; the others are deleted from the queue
\* when the handler returns, the named ones become visible again, and a deleted
\* message stays deleted.
C4_FailuresAreExactlyTheFailedRecords ==
    /\ [](\A w \in Workers : Returning(w) =>
            /\ Range(batchItemFailures[w]) = FailedRecords(w)
            /\ \A i \in 1..Len(trace[w]) :
                  (trace[w][i].proc = "ok" \/ trace[w][i].claim = "duplicate") =>
                      trace[w][i].msg \notin Range(batchItemFailures[w]))
    /\ [][\A w \in Workers :
            (Returning(w) /\ pc'[w] = "idle" /\ faults' = faults) =>
                \A m \in Range(batch[w]) :
                    qstate'[m] = IF m \in FailedRecords(w) THEN "visible" ELSE "deleted"]_vars
    /\ [][\A m \in MsgIds : qstate[m] = "deleted" => qstate'[m] = "deleted"]_vars

\* a handler about to return a batch with a record the store failed and a
\* record processed successfully
C4_Witness ==
    \E w \in Workers : \E i, j \in 1..Len(trace[w]) :
        /\ Returning(w)
        /\ trace[w][i].answer = "StoreUnavailable"
        /\ trace[w][i].msg \in Range(batchItemFailures[w])
        /\ trace[w][j].proc = "ok"

C9_StoreErrorFailsTheRecord ==
    \A w \in Workers : \A i \in 1..Len(trace[w]) :
        trace[w][i].answer \in {"StoreUnavailable", "ValidationException"} =>
            /\ trace[w][i].claim = "threw"
            /\ trace[w][i].proc = "none"
            /\ trace[w][i].recAfter = trace[w][i].recBefore
            /\ i \in Resolved(w)
            /\ log[w][i].outcome = "failed"
            /\ trace[w][i].msg \in Range(batchItemFailures[w])

\* a message whose claim the store failed is redelivered and claimed new
C9_Witness ==
    \E w \in Workers : \E i \in 1..Len(trace[w]) :
        /\ trace[w][i].msg \in storeFailed
        /\ trace[w][i].claim = "new"
        /\ rcv[trace[w][i].msg] >= 2

(***************************************************************************)
(* C10 -- A well-formed event with a FAIL-ME item is reported failed on    *)
(* every delivery, and an otherwise identical event without such an item   *)
(* always succeeds in business processing.  Stated of the events whose    *)
(* eventId no other message carries, in the runs without store fault,     *)
(* abort or expiry.  The second delivery of a FAIL-ME event is answered    *)
(* duplicate and acknowledged, so the statement fails.                     *)
(***************************************************************************)
C10_FailMeFailsOnEveryDelivery ==
    \A w \in Workers : \A i \in Resolved(w) :
        LET m == trace[w][i].msg
        IN  ( /\ ~MalformedEnvelope(body[m])
              /\ Carriers(EventOf(m)) = {m}
              /\ faults = 0 ) =>
              /\ hasFailSku(body[m].detail) =>
                    m \in Range(batchItemFailures[w])
              /\ (~hasFailSku(body[m].detail) /\ trace[w][i].proc # "none") =>
                    trace[w][i].proc = "ok"

(***************************************************************************)
(* C11 -- A message whose order has a FAIL-ME item is failed by the worker *)
(* on each delivery, so the main queue retries it up to MaxReceiveCount    *)
(* times and then moves it to the dead-letter queue: every resolved        *)
(* delivery of it is in batchItemFailures and the queue never deletes it.  *)
(* Stated of the well-formed events whose eventId no other message         *)
(* carries, in the runs without store fault, abort or expiry.  The second  *)
(* delivery is answered duplicate and the message is deleted (see C10), so *)
(* the statement fails.                                                    *)
(***************************************************************************)
C11_FailMeIsRetriedUntilDeadLettered ==
    \A m \in MsgIds :
        ( /\ ~MalformedEnvelope(body[m])
          /\ hasFailSku(body[m].detail)
          /\ Carriers(EventOf(m)) = {m}
          /\ faults = 0 ) =>
            /\ qstate[m] # "deleted"
            /\ \A w \in Workers : \A i \in Resolved(w) :
                  trace[w][i].msg = m => m \in Range(batchItemFailures[w])

(***************************************************************************)
(* C12 -- The first delivery of a FAIL-ME event is claimed new, fails in   *)
(* business processing and is reported in batchItemFailures; the second    *)
(* delivery of the same eventId is answered duplicate and acknowledged     *)
(* without processOrder running again, and the message is not delivered a  *)
(* third time.  Stated of the well-formed events whose eventId no other    *)
(* message carries, in the runs without store fault, abort or expiry.      *)
(***************************************************************************)
FailMeMessage(m) ==
    /\ ~MalformedEnvelope(body[m])
    /\ hasFailSku(body[m].detail)
    /\ Carriers(EventOf(m)) = {m}

C13_MalformedIsFailedUntilDeadLettered ==
    \A m \in MsgIds : MalformedEnvelope(body[m]) =>
        /\ rcv[m] <= MaxReceiveCount
        /\ qstate[m] # "deleted"
        /\ \A w \in Workers : \A i \in Resolved(w) :
              trace[w][i].msg = m => m \in Range(batchItemFailures[w])

(***************************************************************************)
(* Vocabulary of the properties of the replay tool.                        *)
(***************************************************************************)
\* the accepted sends that forwarded the DLQ message d
Forwards(d) == {k \in 1..Len(mainSent) : mainSent[k].from = d}

\* the accepted sends of round r
SendsOfRound(r) == {k \in 1..Len(mainSent) : mainSent[k].round = r}

InDlq(d) == dlq[d].state \in {"visible", "inflight"}

\* a message the tool can forward: in the queue and complete
Replayable(d) == InDlq(d) /\ ~Skipped(dlq[d])

Lines(kind) == {i \in 1..Len(rlog) : rlog[i].kind = kind}

SendFailedIds == UNION {rlog[i].ids : i \in Lines("sendFailed")}

(***************************************************************************)
(* C14 -- The replay tool never loses a message: a message is in toDelete  *)
(* only after its send of this round was accepted by the main queue, and   *)
(* in every state of a run, a crash between the forward and the delete     *)
(* included, each message received from the DLQ is still in the DLQ or has *)
(* been sent to the main queue with its body; a message whose forward      *)
(* failed and that was never forwarded is still in the DLQ.                *)
(***************************************************************************)
C14_NeverLosesAMessage ==
    /\ \A i \in 1..Len(toDelete) : Forwards(toDelete[i]) \cap SendsOfRound(round) # {}
    /\ \A d \in everReceived :
          \/ InDlq(d)
          \/ \E k \in Forwards(d) : mainSent[k].body = dlq[d].body
    /\ \A d \in DlqIds : dlq[d].state = "deleted" => Forwards(d) # {}
    /\ \A d \in SendFailedIds : Forwards(d) = {} => InDlq(d)

\* the tool was killed between a forward and the delete, after a failed send
C14_Witness ==
    /\ rpc = "crashed"
    /\ \E d \in Range(toDelete) : Forwards(d) # {} /\ dlq[d].state = "inflight"
    /\ \E d \in SendFailedIds : Forwards(d) = {} /\ InDlq(d)

C16_DeleteFailuresAreNamed ==
    \A d \in undeleted : \E i \in Lines("deleteFailed") : d \in rlog[i].ids

(***************************************************************************)
(* C17 -- A DLQ message that was forwarded and whose deletion failed is    *)
(* not handled again within the same run: it is not forwarded a second     *)
(* time and no second delete removes it.  The message becomes visible      *)
(* again after the receive's VisibilityTimeout, a later round of the same  *)
(* run receives it, forwards it and deletes it, so the statement fails.    *)
(***************************************************************************)
C17_NotHandledAgain ==
    \A d \in undeleted :
        /\ Cardinality(Forwards(d)) <= 1
        /\ InDlq(d)

(***************************************************************************)
(* C18 -- The tool exits with status 1 exactly when a receive or a batch   *)
(* delete threw or MAIN_QUEUE_URL or DLQ_URL is not set, and with status 0 *)
(* when main() returns; a failed send is no such error: it is logged with  *)
(* the message's id and the loop goes on with the next message.            *)
(***************************************************************************)
C18_ExitStatus ==
    /\ [](/\ rpc = "exited" <=> exitCode = "1"
          /\ rpc = "done" <=> exitCode = "0"
          /\ exitCode = "1" <=> fatal \in {"env", "receive", "delete"}
          /\ fatal = "env" <=> (rpc # "start" /\ ~(MAIN_QUEUE_URL /\ DLQ_URL))
          /\ fatal = "env" => round = 0)
    /\ [][(rpc = "send" /\ ~Skipped(dlq[messages[ri]]) /\ mainSent' = mainSent
             /\ rpc' # "crashed") =>
              /\ rlog' = Append(rlog, LogLine("sendFailed", {messages[ri]}, 0, 0))
              /\ ri' = ri + 1
              /\ rpc' = IF ri < Len(messages) THEN "send" ELSE "delete"
              /\ exitCode' = "none"
              /\ fatal' = "none"]_vars

\* a send failed, the run went on, and the batch delete threw
C18_Witness ==
    /\ rpc = "exited"
    /\ fatal = "delete"
    /\ exitCode = "1"
    /\ Lines("sendFailed") # {}
    /\ mainSent # <<>>

(***************************************************************************)
(* C19 -- The total printed at the end of a run is the number of sends the *)
(* main queue accepted during the run, and the count and the running total *)
(* printed for each batch are the accepted sends of that round and of the  *)
(* rounds up to it.                                                        *)
(***************************************************************************)
C19_CountsAreSuccessfulSends ==
    /\ rpc = "done" => rlog[Len(rlog)] = LogLine("done", {}, 0, Len(mainSent))
    /\ \A i \in Lines("batch") :
          LET r == Cardinality({j \in Lines("batch") : j <= i})
          IN  /\ rlog[i].n = Cardinality(SendsOfRound(r))
              /\ rlog[i].total = Cardinality({k \in 1..Len(mainSent) : mainSent[k].round <= r})

\* a finished run of two batches, one of them with a failed send
C19_Witness ==
    /\ rpc = "done"
    /\ Cardinality(Lines("batch")) = 2
    /\ Lines("sendFailed") # {}
    /\ totalReplayed = Len(mainSent)
    /\ totalReplayed >= 2

(***************************************************************************)
(* C20 -- Replay is safe without consulting the idempotency table: the     *)
(* tool forwards each body as it received it, so the replayed message      *)
(* carries the eventId of the dead-lettered one; a replayed message whose  *)
(* eventId has a record is answered duplicate by the worker and            *)
(* acknowledged without business processing; and however often the tool    *)
(* forwards a message, processOrder is invoked at most once for its        *)
(* eventId.                                                                *)
(***************************************************************************)
C20_ReplayIsSafe ==
    /\ \A k \in 1..Len(mainSent) : mainSent[k].body = dlq[mainSent[k].from].body
    /\ \A m \in MsgIds : m <= arrived =>
          /\ body[m] = mainSent[m].body
          /\ EventOf(m) = dlq[mainSent[m].from].body.detail.eventId
    /\ \A e \in EventIds : calls[e] <= 1
    /\ \A w \in Workers : \A i \in 1..Len(trace[w]) :
          (trace[w][i].recBefore /\ trace[w][i].answer # "StoreUnavailable") =>
              /\ trace[w][i].claim = "duplicate"
              /\ trace[w][i].proc = "none"
              /\ i \in Resolved(w)
              /\ trace[w][i].msg \notin Range(batchItemFailures[w])

\* the tool forwarded one dead-lettered message twice; the worker processed the
\* first copy and is about to acknowledge the second as a duplicate
C20_Witness ==
    \E w \in Workers : \E i \in 1..Len(trace[w]) :
        LET m == trace[w][i].msg
        IN  /\ Returning(w)
            /\ trace[w][i].claim = "duplicate"
            /\ Cardinality(Forwards(mainSent[m].from)) = 2
            /\ calls[EventOf(m)] = 1
            /\ completed[EventOf(m)] = 1

(***************************************************************************)
(* C21 -- Replay recovers from a store outage: a well-formed event without *)
(* FAIL-ME that lies in the dead-letter queue with no idempotency record   *)
(* (every claim attempt was failed by the store, which leaves the table    *)
(* unchanged) is, once the tool has forwarded it, claimed new by the       *)
(* delivery that finds no record and processed successfully; processOrder  *)
(* completes exactly once for it, however many copies the tool forwarded.  *)
(***************************************************************************)
\* the messages of the event in the dead-letter queue are well-formed and
\* without FAIL-ME, and the table holds no record of it
DeadLetteredUnclaimed(e) ==
    /\ e \in DlqEvents(dlq)
    /\ \A d \in DlqIds :
          (dlq[d].state # "absent" /\ dlq[d].body.detail.eventId = e) =>
              ~MalformedEnvelope(dlq[d].body) /\ ~hasFailSku(dlq[d].body.detail)
    /\ ~HasItem(table, e)

ReplayedAndSettled(e) ==
    /\ Carriers(e) # {}
    /\ \A m \in Carriers(e) : qstate[m] = "deleted"
    /\ \A w \in Workers : pc[w] = "idle"

C21_ReplayRecoversFromOutage ==
    \A e \in EventIds :
        DeadLetteredUnclaimed(e) =>
            [](/\ calls[e] <= 1
               /\ completed[e] = calls[e]
               /\ ReplayedAndSettled(e) => completed[e] = 1
               /\ \A w \in Workers : \A i \in 1..Len(trace[w]) :
                     ( /\ EventOf(trace[w][i].msg) = e
                       /\ ~trace[w][i].recBefore
                       /\ trace[w][i].answer # "StoreUnavailable" ) =>
                         /\ trace[w][i].claim = "new"
                         /\ i \in Resolved(w) =>
                               /\ trace[w][i].proc = "ok"
                               /\ trace[w][i].msg \notin Range(batchItemFailures[w]))

\* the replayed copy of an event that had no record was processed and deleted
\* after the store failed its first claim once more
C21_Witness ==
    \E e \in EventIds :
        /\ ReplayedAndSettled(e)
        /\ completed[e] = 1
        /\ newClaims[e] = 1
        /\ Carriers(e) \cap storeFailed # {}

(***************************************************************************)
(* C22 -- While the record of an eventId is in the table every delivery of *)
(* that eventId is answered duplicate; once the record has expired and the *)
(* table has removed it, the next delivery is claimed new and business     *)
(* processing is executed again.  So an eventId is claimed new a second    *)
(* time only after an expiry, and every claim answered new is followed by  *)
(* processOrder.                                                           *)
(***************************************************************************)
C22_NewAgainOnlyAfterExpiry ==
    /\ \A e \in EventIds :
          /\ newClaims[e] <= 1 + expiries[e]
          /\ calls[e] <= newClaims[e]
          /\ expiries[e] >= newClaims[e] => ~HasItem(table, e)
          /\ (HasItem(table, e) /\ expiries[e] = 0) => newClaims[e] = 1
    /\ \A w \in Workers : \A i \in 1..Len(trace[w]) :
          trace[w][i].answer \in {"ok", "ConditionalCheckFailedException"} =>
              /\ trace[w][i].recBefore <=> trace[w][i].claim = "duplicate"
              /\ ~trace[w][i].recBefore <=> trace[w][i].claim = "new"
              /\ (trace[w][i].claim = "new" /\ i \in Resolved(w)) =>
                    trace[w][i].proc \in {"ok", "threw"}

\* after its record expired, a redelivered event was claimed new and processed
\* a second time
C22_Witness ==
    \E w \in Workers : \E i \in Resolved(w) :
        LET e == EventOf(trace[w][i].msg)
        IN  /\ e \in EventIds
            /\ expiries[e] = 1
            /\ newClaims[e] = 2
            /\ calls[e] = 2
            /\ trace[w][i].claim = "new"
            /\ rcv[trace[w][i].msg] >= 2

(***************************************************************************)
(* C23 -- Business processing is executed only after a successful new      *)
(* claim: whenever processOrder is invoked for a record, the same          *)
(* invocation was answered new for it and its put wrote the item; and the  *)
(* item is still in the table after processOrder failed (unless the        *)
(* table's TTL removed it since).                                          *)
(***************************************************************************)
C23_ProcessOnlyAfterNewClaim ==
    /\ \A w \in Workers : pc[w] = "process" =>
          /\ Len(trace[w]) = idx[w]
          /\ trace[w][idx[w]].claim = "new"
          /\ trace[w][idx[w]].proc = "none"
    /\ \A w \in Workers : \A i \in 1..Len(trace[w]) :
          LET t == trace[w][i]
          IN  /\ (t.proc # "none" \/ t.claim = "new") =>
                    /\ t.claim = "new"
                    /\ t.answer = "ok"
                    /\ ~t.recBefore
                    /\ t.recAfter
                    /\ newClaims[EventOf(t.msg)] >= 1
                    /\ HasItem(table, EventOf(t.msg)) \/ expiries[EventOf(t.msg)] >= 1
              /\ t.proc = "threw" =>
                    \/ IdempotencyItem(body[t.msg].detail) \in table
                    \/ expiries[EventOf(t.msg)] >= 1
    /\ \A e \in EventIds : calls[e] <= newClaims[e]

\* processOrder failed for a record and the item written by its claim is in
\* the table
C23_Witness ==
    \E w \in Workers : \E i \in Resolved(w) :
        /\ trace[w][i].proc = "threw"
        /\ trace[w][i].claim = "new"
        /\ IdempotencyItem(body[trace[w][i].msg].detail) \in table
        /\ faults = 0

(***************************************************************************)
(* C24 -- An invocation aborted mid-batch leaves every record of its batch *)
(* unacknowledged, so that it is delivered again, and leaves the items     *)
(* already written in the table.  A record whose claim was written before  *)
(* the abort is, when delivered again (and the TTL has not removed the     *)
(* item), answered duplicate and acknowledged, and processOrder has never  *)
(* been invoked for it.                                                    *)
(***************************************************************************)
AbortedStep(w) ==
    /\ pc[w] \in {"loop", "process"}
    /\ pc'[w] = "idle"
    /\ faults' # faults

ClaimedBeforeAbort(e) == e \in orphaned /\ expiries[e] = 0

C24_AbortLeavesClaimsBehind ==
    /\ [](\A e \in EventIds : ClaimedBeforeAbort(e) =>
            /\ HasItem(table, e)
            /\ calls[e] = 0
            /\ \A m \in Carriers(e) :
                  qstate[m] = "deleted" => parseEventBridgeEnvelope(body[m])
            /\ \A w \in Workers : \A i \in 1..Len(trace[w]) :
                  LET t == trace[w][i]
                  IN  (EventOf(t.msg) = e /\ t.parsed) =>
                          /\ t.claim # "new"
                          /\ t.proc = "none"
                          /\ (t.recBefore /\ t.answer # "StoreUnavailable") =>
                                /\ t.claim = "duplicate"
                                /\ t.msg \notin Range(batchItemFailures[w]))
    /\ [][\A w \in Workers : AbortedStep(w) =>
              /\ table' = table
              /\ rcv' = rcv
              /\ \A m \in Range(batch[w]) : qstate'[m] = "visible"
              /\ \A m \in MsgIds \ Range(batch[w]) : qstate'[m] = qstate[m]]_vars

\* a record claimed by an aborted invocation was delivered again, answered
\* duplicate and acknowledged, and processOrder never ran for it
C24_Witness ==
    \E e \in EventIds :
        /\ ClaimedBeforeAbort(e)
        /\ calls[e] = 0
        /\ Settled(e)
        /\ \A m \in Carriers(e) : rcv[m] >= 2 /\ parseEventBridgeEnvelope(body[m])
        /\ Carriers(e) # {}

(***************************************************************************)
(* C27 -- Deduplication is keyed by eventId alone.  The table holds at     *)
(* most one item per eventId; a claim the store answered is duplicate      *)
(* exactly when an item with the record's eventId was there, whatever the  *)
(* item's orderId and the record's messageId; and two well-formed events   *)
(* with distinct eventIds and the same orderId are, without any fault,     *)
(* both claimed new and both processed.                                    *)
(***************************************************************************)
SameOrderDistinctEvents(m1, m2) ==
    /\ EventOf(m1) \in EventIds
    /\ EventOf(m2) \in EventIds
    /\ EventOf(m1) # EventOf(m2)
    /\ body[m1].detail.orderId = body[m2].detail.orderId
    /\ GoodEvent(EventOf(m1))
    /\ GoodEvent(EventOf(m2))

C27_KeyedByEventIdAlone ==
    /\ \A r1, r2 \in table : r1.eventId = r2.eventId => r1 = r2
    /\ \A w \in Workers : \A i \in 1..Len(trace[w]) :
          LET t == trace[w][i]
          IN  /\ t.answer \in {"ok", "ConditionalCheckFailedException"} =>
                    (t.claim = "duplicate" <=> t.recBefore)
              /\ t.claim = "duplicate" =>
                    \/ HasItem(table, EventOf(t.msg))
                    \/ expiries[EventOf(t.msg)] >= 1
    /\ \A m1, m2 \in MsgIds :
          ( /\ SameOrderDistinctEvents(m1, m2)
            /\ faults = 0
            /\ Settled(EventOf(m1))
            /\ Settled(EventOf(m2)) ) =>
              \A e \in {EventOf(m1), EventOf(m2)} :
                  newClaims[e] = 1 /\ calls[e] = 1 /\ completed[e] = 1

\* two events with distinct eventIds and the same orderId were both claimed
\* new and both processed
C27_Witness ==
    \E m1, m2 \in MsgIds :
        /\ SameOrderDistinctEvents(m1, m2)
        /\ Settled(EventOf(m1))
        /\ Settled(EventOf(m2))
        /\ \A e \in {EventOf(m1), EventOf(m2)} : newClaims[e] = 1 /\ completed[e] = 1
        /\ Cardinality(table) = 2

(***************************************************************************)
(* C30 -- The worker retries nothing itself.  Within one invocation the    *)
(* records of the batch are visited once each, in order: every visit is    *)
(* one parse, at most one claim and at most one processOrder call, and a   *)
(* record that failed is passed over and reported, never visited again.    *)
(***************************************************************************)
Visited(w) == IF pc[w] = "process" THEN idx[w] ELSE idx[w] - 1

C30_NoRetryInTheWorker ==
    /\ \A w \in Workers :
          /\ Len(trace[w]) = Visited(w)
          /\ Len(trace[w]) <= Len(batch[w])
          /\ \A i \in 1..Len(trace[w]) : trace[w][i].msg = batch[w][i]
          /\ \A i, j \in 1..Len(batch[w]) : batch[w][i] = batch[w][j] => i = j
          /\ \A i \in 1..Len(trace[w]) :
                LET t == trace[w][i]
                IN  /\ ~t.parsed => t.claim = "none" /\ t.proc = "none"
                    /\ t.claim # "new" => t.proc = "none"
                    /\ (i \in Resolved(w) /\ (~t.parsed \/ t.claim = "threw" \/ t.proc = "threw")) =>
                          Cardinality({k \in 1..Len(batchItemFailures[w]) :
                                          batchItemFailures[w][k] = t.msg}) = 1
          /\ Len(log[w]) = Cardinality(Resolved(w))
    /\ \A e \in EventIds : calls[e] <= newClaims[e]

\* an invocation went on after records failed at the parse, at the claim or
\* in processOrder
C30_Witness ==
    \E w \in Workers :
        /\ Returning(w)
        /\ Len(batch[w]) = 2
        /\ Len(batchItemFailures[w]) = 2
        /\ \E i \in 1..2 : trace[w][i].proc = "threw" \/ trace[w][i].claim = "threw"

(***************************************************************************)
(* C25 -- Every request the API accepts (answers 202) is published with an *)
(* eventId that uuidv4() generated for it, which is no value of the        *)
(* request and no identifier published before; its orderId is the          *)
(* request's orderId as-is whenever the request provides one, and a        *)
(* generated one only when the request has none; and the 202 response      *)
(* carries exactly these two identifiers.  The code takes an empty orderId *)
(* for a missing one, so the statement fails.                              *)
(***************************************************************************)
Accepted == apc = "idle" /\ aresp.statusCode = 202

RequestValues ==
    {areq.requestId, areq.body.payload.eventId.s, areq.body.payload.orderId.s,
     areq.body.payload.customerId.s}

FreshFor(id, detail) ==
    /\ \E n \in 1..uuids : id = Uuid(n)
    /\ id \notin RequestValues
    /\ \A i \in 1..(Len(bus) - 1) : id \notin {bus[i].Detail.eventId, bus[i].Detail.orderId}

OrderIdProvided == areq.body.payload.orderId.type # "undefined"

C25_IdentifiersOfAnAcceptedRequest ==
    Accepted =>
        /\ Len(bus) >= 1
        /\ bus[Len(bus)].Detail = adetail
        /\ FreshFor(adetail.eventId, adetail)
        /\ adetail.eventId # arequestId
        /\ OrderIdProvided => adetail.orderId = areq.body.payload.orderId.s
        /\ ~OrderIdProvided =>
              /\ FreshFor(adetail.orderId, adetail)
              /\ adetail.orderId # adetail.eventId
        /\ DOMAIN aresp.body = {"orderId", "eventId"}
        /\ aresp.body.orderId = adetail.orderId
        /\ aresp.body.eventId = adetail.eventId

(***************************************************************************)
(* C26 -- An item is created only by a claim answered new, when the table  *)
(* holds none for its eventId, and is never updated: it stays as it was    *)
(* written until the TTL removes it.  A claim answered duplicate leaves    *)
(* the stored orderId, createdAt and expiresAt as they were, also when it  *)
(* carries another orderId or createdAt or comes later.                    *)
(***************************************************************************)
C26_RecordsAreNeverUpdated ==
    /\ [](/\ \A r1, r2 \in table : r1.eventId = r2.eventId => r1 = r2
          /\ lastClaim.status = "new" =>
                lastClaim.before = {} /\ lastClaim.after = {lastClaim.item}
          /\ lastClaim.status \in {"duplicate", "threw"} =>
                lastClaim.after = lastClaim.before
          /\ lastClaim.status = "duplicate" => lastClaim.before # {})
    /\ [][/\ \A r \in table :
                \/ r \in table'
                \/ Expired(r, nowMs) /\ ~HasItem(table', r.eventId)
          /\ \A r \in table' \ table :
                /\ ~HasItem(table, r.eventId)
                /\ lastClaim'.status = "new"
                /\ lastClaim'.item = r]_vars

\* a claim answered duplicate carried another orderId, another createdAt and a
\* later expiresAt than the item stored, which is still as it was
C26_Witness ==
    /\ lastClaim.status = "duplicate"
    /\ \E r \in table :
          /\ lastClaim.after = {r}
          /\ r.eventId = lastClaim.item.eventId
          /\ r.orderId # lastClaim.item.orderId
          /\ r.createdAt # lastClaim.item.createdAt
          /\ r.expiresAt # lastClaim.item.expiresAt

(***************************************************************************)
(* C28 -- The expiresAt written with a new item is the claim time in whole *)
(* seconds plus TTL_DAYS x 86400, TTL_DAYS being 7 when the environment    *)
(* sets none.  It is strictly later than the time of the claim exactly     *)
(* when TTL_DAYS is positive, as it is by default; as claimed, for every   *)
(* TTL_DAYS, the statement fails.                                          *)
(***************************************************************************)
WrittenExpiresAt == NumberOfAttribute(lastClaim.item.expiresAt)

ExpiresAtAsComputed ==
    /\ ~TTL_DAYS.nan
    /\ ~WrittenExpiresAt.nan
    /\ WrittenExpiresAt.n = (lastClaim.at \div 1000) + TTL_DAYS.n * 86400
    /\ Len(TTL_DAYS_ENV) = 0 => TTL_DAYS = Number(7)
    /\ lastClaim.item \in table \/ Expired(lastClaim.item, nowMs)

LaterThanTheClaim == WrittenExpiresAt.n * 1000 > lastClaim.at

\* C28 as claimed: always strictly later than the time of the claim.
C28_ExpiresAtAlwaysLater ==
    lastClaim.status = "new" => ExpiresAtAsComputed /\ LaterThanTheClaim

\* C28 amended: strictly later exactly when TTL_DAYS is positive.
C28_ExpiresAtLaterWhenTtlPositive ==
    lastClaim.status = "new" =>
        /\ ExpiresAtAsComputed
        /\ LaterThanTheClaim <=> TTL_DAYS.n > 0

\* a new item was written under the default TTL_DAYS, between two whole seconds
C28_Witness ==
    /\ lastClaim.status = "new"
    /\ Len(TTL_DAYS_ENV) = 0
    /\ lastClaim.at % 1000 # 0
    /\ lastClaim.item \in table
    /\ LaterThanTheClaim

(***************************************************************************)
(* C29 -- The main queue's visibility window (180 s) is at least six times *)
(* the worker's timeout (30 s), with batches of 5 and 5 receives before    *)
(* the dead-letter queue.  So while an invocation runs, the window of      *)
(* every record of its batch is still open: the record is in flight and in *)
(* no other invocation's batch.                                            *)
(***************************************************************************)
C29_NoRedeliveryWhileProcessing ==
    /\ VisibilityTimeoutSeconds = 180
    /\ WorkerTimeoutSeconds = 30
    /\ VisibilityTimeoutSeconds >= 6 * WorkerTimeoutSeconds
    /\ BatchSize = 5
    /\ MaxReceiveCount = 5
    /\ \A w \in Workers : pc[w] # "idle" =>
          /\ nowMs <= DeadlineOf(startedAt[w])
          /\ \A m \in Range(batch[w]) :
                /\ qstate[m] = "inflight"
                /\ nowMs < visibleAt[m]
                /\ visibleAt[m] - startedAt[w] >= 6 * WorkerTimeoutSeconds * 1000
                /\ \A w2 \in Workers \ {w} : pc[w2] # "idle" => m \notin Range(batch[w2])

\* a message is delivered a second time, to an invocation that runs to its
\* timeout, after the invocation that received it first was stopped
C29_Witness ==
    \E w \in Workers : \E m \in Range(batch[w]) :
        /\ pc[w] # "idle"
        /\ rcv[m] = 2
        /\ nowMs = DeadlineOf(startedAt[w])
        /\ \A w2 \in Workers \ {w} : pc[w2] = "idle"

(***************************************************************************)
(* C31 -- Every record the handler has resolved produced exactly one       *)
(* outcome entry in the log, tagged success, duplicate_ignored or failed;  *)
(* the tag is failed exactly when the record's messageId is in             *)
(* batchItemFailures, and a success or duplicate entry carries the eventId *)
(* and orderId of the record's own detail.                                 *)
(***************************************************************************)
C31_OneOutcomeEntryPerRecord ==
    \A w \in Workers : pc[w] # "idle" =>
        /\ Len(log[w]) = idx[w] - 1
        /\ \A i \in 1..Len(log[w]) :
              LET m == batch[w][i]
                  entry == log[w][i]
              IN  /\ entry.outcome \in {"success", "duplicate_ignored", "failed"}
                  /\ entry.outcome = "failed" <=> m \in Range(batchItemFailures[w])
                  /\ entry.outcome # "failed" =>
                        /\ entry.eventId = body[m].detail.eventId
                        /\ entry.orderId = body[m].detail.orderId
                  /\ entry.outcome = "success" <=> trace[w][i].proc = "ok"
                  /\ entry.outcome = "duplicate_ignored" <=> trace[w][i].claim = "duplicate"

\* a handler about to return a batch of two records, one logged as a success
\* and one logged as failed
C31_Witness ==
    \E w \in Workers :
        /\ Returning(w)
        /\ Len(log[w]) = 2
        /\ {log[w][i].outcome : i \in 1..2} = {"success", "failed"}
        /\ Len(batchItemFailures[w]) = 1

(***************************************************************************)
(* C32 -- The API publishes at most one event per request, and only for a  *)
(* request whose body parsed and validated: items is a non-empty array,    *)
(* every item has a non-empty string sku and a positive finite qty, and    *)
(* customerId and orderId are strings if present.  It answers 202 exactly  *)
(* when the PutEvents call returned with no failed entry, and a request    *)
(* that fails validation or finds EVENT_BUS_NAME missing is answered at    *)
(* once, with another status, and nothing is published for it.             *)
(***************************************************************************)
ValidatedRequest(req) ==
    LET payload == req.body.payload
    IN  /\ req.body.kind = "json"
        /\ payload.kind = "object"
        /\ payload.items.isArray
        /\ Len(payload.items.elems) > 0
        /\ \A i \in 1..Len(payload.items.elems) :
              LET item == payload.items.elems[i]
              IN  /\ item.kind = "object"
                  /\ item.sku.type = "string" /\ item.sku.chars # <<>>
                  /\ item.qty.type = "number" /\ item.qty.finite /\ item.qty.n > 0
        /\ payload.customerId.type \in {"undefined", "string"}
        /\ payload.orderId.type \in {"undefined", "string"}

C32_PublishesOnceAndOnlyValidated ==
    /\ [](Len(bus) <= handled)
    /\ [][/\ bus' # bus =>
                /\ apc = "publish" /\ apc' = "idle" /\ handled' = handled
                /\ EVENT_BUS_NAME
                /\ ValidatedRequest(areq)
                /\ bus' = Append(bus, [Source |-> "myapp.orders",
                                       DetailType |-> "OrderCreated",
                                       Detail |-> adetail])
                /\ Len(adetail.items) = Len(areq.body.payload.items.elems)
          /\ handled' = handled + 1 =>
                /\ bus' = bus
                /\ (~EVENT_BUS_NAME \/ ~ValidatedRequest(areq')) =>
                      apc' = "idle" /\ aresp'.statusCode \in {400, 500}
                /\ apc' = "idle" => aresp'.statusCode # 202
          /\ \A outcome \in PutEventsOutcomes : ApiPublish(outcome) =>
                (aresp'.statusCode = 202 <=> outcome \in {"accepted", "acceptedNoCount"})
         ]_vars

\* one request was published and answered 202, the next one, with a qty of
\* zero, was rejected and nothing was published for it
C32_Witness ==
    /\ apc = "idle"
    /\ handled = 2
    /\ Len(bus) = 1
    /\ aresp.statusCode = 400
    /\ ~ValidatedRequest(areq)
    /\ \E i \in 1..Len(alog) : alog[i].msg = "OrderCreated event published"

(***************************************************************************)
(* C33 -- Each round of the replay tool receives at most 10 messages of    *)
(* the dead-letter queue and forwards at most 10, every one of them a      *)
(* message it received in that round, and none of them twice in the round. *)
(***************************************************************************)
C33_AtMostTenPerRoundEachOnce ==
    /\ Len(messages) <= 10
    /\ \A i, j \in 1..Len(messages) : i # j => messages[i] # messages[j]
    /\ \A r \in 1..round :
          /\ Cardinality(SendsOfRound(r)) <= 10
          /\ \A k1, k2 \in SendsOfRound(r) :
                k1 # k2 => mainSent[k1].from # mainSent[k2].from
    /\ rpc \in {"send", "delete"} =>
          /\ \A k \in SendsOfRound(round) : mainSent[k].from \in Range(messages)
          /\ Cardinality(SendsOfRound(round)) <= ri - 1

\* a round that received 10 messages and forwarded them all, while the queue
\* holds one more
C33_Witness ==
    /\ rpc = "delete"
    /\ Len(messages) = 10
    /\ Cardinality(SendsOfRound(round)) = 10
    /\ Visible # {}

(***************************************************************************)
(* C34 -- The batchItemFailures of the handler, while it is built and when *)
(* it is returned, is a list of messageIds of records of the input batch,  *)
(* without duplicates and in the order in which the records appear in the  *)
(* batch.                                                                  *)
(***************************************************************************)
PositionInBatch(w, m) == CHOOSE i \in 1..Len(batch[w]) : batch[w][i] = m

C34_FailuresFollowTheBatch ==
    \A w \in Workers : pc[w] # "idle" =>
        LET failures == batchItemFailures[w]
        IN  /\ Range(failures) \subseteq Range(batch[w])
            /\ \A i, j \in 1..Len(failures) :
                  i < j => /\ failures[i] # failures[j]
                           /\ PositionInBatch(w, failures[i]) <
                                  PositionInBatch(w, failures[j])
            /\ \A i \in 1..Len(failures) : PositionInBatch(w, failures[i]) < idx[w]

\* a handler about to return a batch of two records that both failed, the
\* batch not being in the order of the message ids
C34_Witness ==
    \E w \in Workers :
        /\ Returning(w)
        /\ batch[w] = <<2, 1>>
        /\ batchItemFailures[w] = <<2, 1>>

(***************************************************************************)
(* C35 -- When the two records of one batch carry the same eventId and the *)
(* table holds no item for it at the first claim, the handler resolves     *)
(* them one after the other: the first is claimed new and processOrder     *)
(* runs for it before the second is claimed; the second is answered        *)
(* duplicate, processOrder does not run for it and it is absent from       *)
(* batchItemFailures, also when the first one failed; processOrder ran     *)
(* once for the pair.  Stated of the claims the store answered, while no   *)
(* item of the eventId has expired.                                        *)
(***************************************************************************)
C35_SameEventIdTwiceInABatch ==
    \A w \in Workers :
        ( /\ Len(batch[w]) = 2
          /\ Len(trace[w]) >= 1
          /\ trace[w][1].parsed
          /\ parseEventBridgeEnvelope(body[batch[w][2]])
          /\ EventOf(batch[w][1]) \in EventIds
          /\ EventOf(batch[w][1]) = EventOf(batch[w][2])
          /\ ~trace[w][1].recBefore
          /\ trace[w][1].claim \in {"new", "duplicate"}
          /\ expiries[EventOf(batch[w][1])] = 0 )
        => LET first == trace[w][1]
               e == EventOf(batch[w][1])
           IN  /\ first.claim = "new"
               /\ calls[e] <= 1
               /\ idx[w] >= 2 =>
                     /\ first.proc \in {"ok", "threw"}
                     /\ calls[e] = 1
                     /\ first.proc = "threw" <=> first.msg \in Range(batchItemFailures[w])
               /\ Len(trace[w]) = 2 =>
                     /\ first.proc \in {"ok", "threw"}
                     /\ trace[w][2].recBefore
                     /\ trace[w][2].claim \in {"new", "duplicate"} =>
                           /\ trace[w][2].claim = "duplicate"
                           /\ trace[w][2].proc = "none"
                           /\ trace[w][2].msg \notin Range(batchItemFailures[w])
                           /\ log[w][2].outcome = "duplicate_ignored"

\* a handler about to return a batch of two records with the same eventId:
\* the first failed in processOrder, the second was answered duplicate
C35_Witness ==
    \E w \in Workers :
        /\ Returning(w)
        /\ Len(trace[w]) = 2
        /\ EventOf(batch[w][1]) = EventOf(batch[w][2])
        /\ ~trace[w][1].recBefore
        /\ trace[w][1].claim = "new"
        /\ trace[w][1].proc = "threw"
        /\ trace[w][2].claim = "duplicate"
        /\ batchItemFailures[w] = <<batch[w][1]>>
        /\ calls[EventOf(batch[w][1])] = 1

(***************************************************************************)
(* C36 -- A message of the dead-letter queue that lacks its body, its      *)
(* receipt handle or its message id is passed over by the replay tool: it  *)
(* is never forwarded, never named in a batch delete, never deleted, and   *)
(* the round's count is the number of sends the main queue accepted.  A    *)
(* round that forwarded no message, because every message was passed over  *)
(* or failed to send, returns zero and ends the run: no receive follows    *)
(* it.                                                                     *)
(***************************************************************************)
C36_SkippedAndZeroRounds ==
    /\ \A d \in DlqIds : dlq[d].lacks # "nothing" =>
          /\ Forwards(d) = {}
          /\ d \notin Range(toDelete)
          /\ d \notin undeleted
          /\ dlq[d].state # "deleted"
    /\ rpc \in {"send", "delete"} =>
          /\ processedCount = Cardinality(SendsOfRound(round))
          /\ processedCount <=
                Cardinality({i \in 1..(ri - 1) : dlq[messages[i]].lacks = "nothing"})
    /\ \A r \in 1..(round - 1) : SendsOfRound(r) # {}
    /\ (rpc = "receive" /\ round >= 1) => SendsOfRound(round) # {}
    /\ (rpc = "done" /\ round >= 1) =>
          /\ SendsOfRound(round) = {}
          /\ exitCode = "0"
          /\ totalReplayed = Len(mainSent)

\* the run ended after its second round, in which every message received
\* lacked a field; the first round forwarded a message
C36_Witness ==
    /\ rpc = "done"
    /\ round = 2
    /\ messages # <<>>
    /\ \A i \in 1..Len(messages) : dlq[messages[i]].lacks # "nothing"
    /\ SendsOfRound(1) # {}
    /\ \E d \in DlqIds : dlq[d].lacks # "nothing" /\ dlq[d].state = "inflight"

(***************************************************************************)
(* C37 -- When TABLE_NAME is not set, every record of every batch whose    *)
(* envelope parses fails at the claim: no put is sent to the store, the    *)
(* table stays empty, processOrder is never invoked, the record is logged  *)
(* as failed and its messageId is in batchItemFailures, so that the        *)
(* handler returns every record of the batch as failed.                    *)
(***************************************************************************)
C37_NothingIsClaimedWithoutTableName ==
    ~TABLE_NAME =>
        /\ table = {}
        /\ storeFailed = {}
        /\ \A e \in EventIds : calls[e] = 0 /\ newClaims[e] = 0
        /\ \A w \in Workers :
              /\ pc[w] # "process"
              /\ \A i \in 1..Len(trace[w]) :
                    /\ trace[w][i].answer = "none"
                    /\ trace[w][i].proc = "none"
                    /\ trace[w][i].parsed => trace[w][i].claim = "threw"
                    /\ trace[w][i].msg \in Range(batchItemFailures[w])
                    /\ log[w][i].outcome = "failed"
              /\ Returning(w) => batchItemFailures[w] = batch[w]

\* without TABLE_NAME, a handler about to return a batch of two records whose
\* envelopes parsed, one of them with the FAIL-ME item
C37_Witness ==
    /\ ~TABLE_NAME
    /\ \E w \in Workers :
          /\ Returning(w)
          /\ Len(batch[w]) = 2
          /\ \A i \in 1..2 : trace[w][i].parsed
          /\ \E i \in 1..2 : hasFailSku(body[batch[w][i]].detail)
          /\ \E i \in 1..2 : ~MalformedEnvelope(body[batch[w][i]])
          /\ batchItemFailures[w] = batch[w]

(***************************************************************************)
(* C38 -- The API answers 400 to every request it rejects because of the   *)
(* client's input (the body is missing, is not JSON, or the payload fails  *)
(* validation), and 500 only for a failure on the server's side            *)
(* (EVENT_BUS_NAME missing, the publish threw or reported a failed         *)
(* entry).  The code answers a missing body with 500, so the statement     *)
(* fails.                                                                  *)
(***************************************************************************)
RejectedForItsInput ==
    /\ handled >= 1
    /\ apc = "idle"
    /\ EVENT_BUS_NAME
    /\ \/ areq.body.kind \in {"missing", "invalid"}
       \/ validateOrderPayload(areq.body.payload).threw

C38_ClientErrors400ServerErrors500 ==
    /\ RejectedForItsInput => aresp.statusCode = 400
    /\ (handled >= 1 /\ apc = "idle" /\ aresp.statusCode = 500) => ~RejectedForItsInput

====
